---- MODULE Spec2Model ----
(***************************************************************************)
(* Quotto: the text layout engine (wrapText, truncateTextToMaxLines,       *)
(* calculateOptimalFontSizes, calculateRequiredHeight), the validators and *)
(* generateQuoteImage of src/src/image-generator.ts; the argument parsers  *)
(* parseWithCommander and parseCliArgs; the ErrorHandler singleton and     *)
(* handleAsyncError.                                                       *)
(*                                                                         *)
(* A JavaScript string is a sequence of UTF-16 code units (integers).      *)
(* Pixel widths are kept in half pixels: the code's charWidth*fontSize*0.5 *)
(* compared with maxWidth is charWidth*fontSize compared with 2*maxWidth,  *)
(* exact for the integer font sizes and widths of the configuration.       *)
(***************************************************************************)
EXTENDS Integers, Sequences, FiniteSets, TLC

VARIABLES
  \* one call of wrapText
  wText, wMaxWidth, wFontSize, wConfig, wLines, wpc,
  \* one call of truncateTextToMaxLines, then a second on its result
  tLines, tMaxLines, tResult, tAgain, tpc,
  \* one call of generateQuoteImage
  quoteData, outputPath, config, pc, fsDirExists, fsWriteFails, dirCreated,
  fileWritten, quoteResult, quoteValidation, pathValidation,
  fontSizes, requiredHeight, canvasHeight, layout, error,
  \* one call of parseWithCommander on the options commander parsed
  cOptions, cParse, cNow, cResult, cpc,
  \* one call of parseCliArgs
  aArgs, aNow, aResult, apc,
  \* the ErrorHandler singleton, its log, and calls of wrapped functions
  instance, instancesMade, handles, errorLog, history, wrapped, steps,
  \* the character loop of wrapText over one paragraph, one character a step
  sChars, sMaxWidth, sFontSize, sConfig, sIndex, sState, sLast,
  \* one mount of the CLI App component
  appOptions, appParse, appNow, appMkdirFails, appWriteFails, appPc, parsedArgs,
  status, appMessage, shownOutputPath, errorCode, statusTrace

wrapVars == <<wText, wMaxWidth, wFontSize, wConfig, wLines, wpc>>
truncVars == <<tLines, tMaxLines, tResult, tAgain, tpc>>
genVars == <<quoteData, outputPath, config, pc, fsDirExists, fsWriteFails,
             dirCreated, fileWritten, quoteResult, quoteValidation, pathValidation,
             fontSizes, requiredHeight, canvasHeight, layout, error>>
cmdVars == <<cOptions, cParse, cNow, cResult, cpc>>
argVars == <<aArgs, aNow, aResult, apc>>
logVars == <<instance, instancesMade, handles, errorLog, history, wrapped, steps>>
stepVars == <<sChars, sMaxWidth, sFontSize, sConfig, sIndex, sState, sLast>>
appVars == <<appOptions, appParse, appNow, appMkdirFails, appWriteFails, appPc, parsedArgs,
             status, appMessage, shownOutputPath, errorCode, statusTrace>>
vars == <<wrapVars, truncVars, genVars, cmdVars, argVars, logVars, stepVars, appVars>>

\* ------------------------------------------------------------ characters

\* The code units the inputs are drawn from.
CH == [nl |-> 10, sp |-> 32, dot |-> 46, slash |-> 47, H |-> 72, a |-> 97,
       g |-> 103, i |-> 105, j |-> 106, n |-> 110, o |-> 111, p |-> 112,
       hira |-> 12354,    \* U+3042 HIRAGANA LETTER A
       comma |-> 12289,   \* U+3001 IDEOGRAPHIC COMMA, line-start prohibited
       paren |-> 65288,   \* U+FF08 FULLWIDTH LEFT PARENTHESIS, line-end prohibited
       hi |-> 55357, lo |-> 56832,   \* U+1F600 as its two UTF-16 code units
       bs |-> 92, dash |-> 45, q |-> 113, u |-> 117, t |-> 116, e |-> 101,
       h |-> 104, r |-> 114, l |-> 108, zero |-> 48,
       ellipsis |-> 8230]   \* U+2026 HORIZONTAL ELLIPSIS, half-width, line-start prohibited

Rep(c, k) == [i \in 1..k |-> c]

\* String.prototype.trim's white space: TAB LF VT FF CR SP NBSP, the Unicode
\* space separators, LS, PS and BOM.
IsWhiteSpace(c) ==
  c \in ({9, 10, 11, 12, 13, 32, 160, 5760, 8232, 8233, 8239, 8287, 12288, 65279}
         \cup (8192..8202))

RECURSIVE TrimStart(_)
TrimStart(s) ==
  IF s = <<>> THEN <<>>
  ELSE IF IsWhiteSpace(Head(s)) THEN TrimStart(Tail(s)) ELSE s

RECURSIVE TrimEnd(_)
TrimEnd(s) ==
  IF s = <<>> THEN <<>>
  ELSE IF IsWhiteSpace(s[Len(s)]) THEN TrimEnd(SubSeq(s, 1, Len(s) - 1)) ELSE s

Trim(s) == TrimEnd(TrimStart(s))

\* text.split('\n'): k newlines give k+1 paragraphs.
RECURSIVE SplitLoop(_, _, _)
SplitLoop(s, cur, acc) ==
  IF s = <<>> THEN Append(acc, cur)
  ELSE IF Head(s) = CH.nl THEN SplitLoop(Tail(s), <<>>, Append(acc, cur))
  ELSE SplitLoop(Tail(s), Append(cur, Head(s)), acc)

SplitNewline(s) == SplitLoop(s, <<>>, <<>>)

EndsWith(s, suffix) ==
  /\ Len(s) >= Len(suffix)
  /\ SubSeq(s, Len(s) - Len(suffix) + 1, Len(s)) = suffix

DotPng == <<CH.dot, CH.p, CH.n, CH.g>>

\* ------------------------------------------------------------ configuration

\* '、。）」』！？、。．，）】｝・ゝゞ々ー～…'
DefaultLineStartProhibited ==
  {12289, 12290, 65289, 12301, 12303, 65281, 65311, 65294, 65292, 12305,
   65373, 12539, 12445, 12446, 12293, 12540, 65374, 8230}

\* '（「『（【｛'
DefaultLineEndProhibited == {65288, 12300, 12302, 12304, 65371}

DEFAULT_CONFIG ==
  [canvas |-> [width |-> 600, minHeight |-> 400, maxHeight |-> 1200,
               margin |-> 60, footerHeight |-> 50],
   font |-> [sizes |-> [quote |-> [base |-> 24, min |-> 16],
                        title |-> [base |-> 18, min |-> 14],
                        author |-> [base |-> 16, min |-> 12]]],
   text |-> [maxLines |-> [quote |-> 15, title |-> 6, author |-> 3],
             kinsoku |-> [lineStartProhibited |-> DefaultLineStartProhibited,
                          lineEndProhibited |-> DefaultLineEndProhibited]],
   spacing |-> [startY |-> 120,
                sectionGap |-> [afterQuote |-> 40, afterTitle |-> 20],
                lineGap |-> [quote |-> 8, title |-> 6, author |-> 4]]]

getMaxTextWidth(cfg) == cfg.canvas.width - cfg.canvas.margin * 2

\* ------------------------------------------------------------ width estimator

getCharWidth(code) ==
  IF \/ (code >= 12288 /\ code <= 12351)    \* 0x3000-0x303f CJK punctuation
     \/ (code >= 12352 /\ code <= 12447)    \* 0x3040-0x309f Hiragana
     \/ (code >= 12448 /\ code <= 12543)    \* 0x30a0-0x30ff Katakana
     \/ (code >= 19968 /\ code <= 40879)    \* 0x4e00-0x9faf CJK ideographs
     \/ (code >= 65280 /\ code <= 65519)    \* 0xff00-0xffef full-width forms
  THEN 2
  ELSE 1

\* for (const char of text) walks code points: a high surrogate followed by a
\* low surrogate is one char, and charCodeAt(0) of it is the high surrogate.
IsHighSurrogate(c) == c >= 55296 /\ c <= 56319
IsLowSurrogate(c) == c >= 56320 /\ c <= 57343

RECURSIVE calculateTextWidth(_)
calculateTextWidth(text) ==
  IF text = <<>> THEN 0
  ELSE IF Len(text) >= 2 /\ IsHighSurrogate(text[1]) /\ IsLowSurrogate(text[2])
  THEN getCharWidth(text[1]) + calculateTextWidth(SubSeq(text, 3, Len(text)))
  ELSE getCharWidth(Head(text)) + calculateTextWidth(Tail(text))

\* Estimated width of a line in half pixels, as the code recomputes it for the
\* line a break starts: the sum over its chars of getCharWidth(c) * fontSize * 0.5.
LineWidth2(line, fontSize) == calculateTextWidth(line) * fontSize

\* ------------------------------------------------------------ wrapText

\* The loop state st is [currentLine, currentWidth, allLines], currentWidth in
\* half pixels.

\* The incoming character does not fit on a line that already holds something.
BreakNeeded_LateCheck(st, char, maxWidth, fontSize) ==
  st.currentWidth > 2 * maxWidth /\ st.currentLine # <<>>

BreakNeeded(st, char, maxWidth, fontSize) ==
  st.currentWidth + getCharWidth(char) * fontSize > 2 * maxWidth
    /\ st.currentLine # <<>>

\* The break without kinsoku processing: the line ends where it is full.
BreakLine_NoKinsoku(st, char, fontSize, cfg) ==
  [currentLine |-> <<char>>,
   currentWidth |-> LineWidth2(<<char>>, fontSize),
   allLines |-> Append(st.allLines, st.currentLine)]

\* A break that carries for the incoming character first and looks at the end
\* of what is left afterwards.
BreakLine_StartFirst(st, char, fontSize, cfg) ==
  LET len == Len(st.currentLine)
      startHit == char \in cfg.text.kinsoku.lineStartProhibited
      pos1 == IF startHit THEN len - 1 ELSE len
      move1 == IF startHit THEN <<st.currentLine[len]>> ELSE <<>>
      endHit == pos1 > 0 /\ st.currentLine[pos1] \in cfg.text.kinsoku.lineEndProhibited
      lineBreakPos == IF endHit THEN pos1 - 1 ELSE pos1
      moveToNext == IF endHit THEN <<st.currentLine[pos1]>> \o move1 ELSE move1
      finalLine == SubSeq(st.currentLine, 1, lineBreakPos)
      nextLine == moveToNext \o <<char>>
  IN [currentLine |-> nextLine,
      currentWidth |-> LineWidth2(nextLine, fontSize),
      allLines |-> IF finalLine # <<>> THEN Append(st.allLines, finalLine)
                   ELSE st.allLines]

\* The break: kinsoku detachment, the emitted line, the line the break starts.
\* A break that forgets the characters it took off the end of the line.
BreakLine_DropCarried(st, char, fontSize, cfg) ==
  LET len == Len(st.currentLine)
      endHit == st.currentLine[len] \in cfg.text.kinsoku.lineEndProhibited
      pos1 == IF endHit THEN len - 1 ELSE len
      startHit == char \in cfg.text.kinsoku.lineStartProhibited /\ pos1 > 0
      lineBreakPos == IF startHit THEN pos1 - 1 ELSE pos1
      finalLine == SubSeq(st.currentLine, 1, lineBreakPos)
  IN [currentLine |-> <<char>>,
      currentWidth |-> LineWidth2(<<char>>, fontSize),
      allLines |-> IF finalLine # <<>> THEN Append(st.allLines, finalLine)
                   ELSE st.allLines]

BreakLine(st, char, fontSize, cfg) ==
  LET len == Len(st.currentLine)
      last == st.currentLine[len]
      endHit == last \in cfg.text.kinsoku.lineEndProhibited
      pos1 == IF endHit THEN len - 1 ELSE len
      move1 == IF endHit THEN <<last>> ELSE <<>>
      startHit == char \in cfg.text.kinsoku.lineStartProhibited /\ pos1 > 0
      lineBreakPos == IF startHit THEN pos1 - 1 ELSE pos1
      moveToNext == IF startHit THEN <<st.currentLine[lineBreakPos + 1]>> \o move1
                    ELSE move1
      finalLine == SubSeq(st.currentLine, 1, lineBreakPos)
      nextLine == moveToNext \o <<char>>
  IN [currentLine |-> nextLine,
      currentWidth |-> LineWidth2(nextLine, fontSize),
      allLines |-> IF finalLine # <<>> THEN Append(st.allLines, finalLine)
                   ELSE st.allLines]

\* The body of the character loop.
WrapChar(st, char, maxWidth, fontSize, cfg) ==
  IF BreakNeeded(st, char, maxWidth, fontSize)
  THEN BreakLine(st, char, fontSize, cfg)
  ELSE [currentLine |-> Append(st.currentLine, char),
        currentWidth |-> st.currentWidth + getCharWidth(char) * fontSize,
        allLines |-> st.allLines]

RECURSIVE WrapChars(_, _, _, _, _)
WrapChars(st, chars, maxWidth, fontSize, cfg) ==
  IF chars = <<>> THEN st
  ELSE WrapChars(WrapChar(st, Head(chars), maxWidth, fontSize, cfg),
                 Tail(chars), maxWidth, fontSize, cfg)

\* A blank paragraph dropped instead of kept as an empty line.
WrapParagraph_SkipBlank(allLines, paragraph, maxWidth, fontSize, cfg) ==
  LET st == WrapChars([currentLine |-> <<>>, currentWidth |-> 0,
                       allLines |-> allLines],
                      paragraph, maxWidth, fontSize, cfg)
  IN IF Trim(paragraph) = <<>> THEN allLines
     ELSE IF st.currentLine # <<>> THEN Append(st.allLines, st.currentLine)
     ELSE st.allLines

\* One iteration of the paragraph loop: allLines after the paragraph.
WrapParagraph(allLines, paragraph, maxWidth, fontSize, cfg) ==
  IF Trim(paragraph) = <<>> THEN Append(allLines, <<>>)
  ELSE
    LET st == WrapChars([currentLine |-> <<>>, currentWidth |-> 0,
                         allLines |-> allLines],
                        paragraph, maxWidth, fontSize, cfg)
    IN IF st.currentLine # <<>> THEN Append(st.allLines, st.currentLine)
       ELSE st.allLines

RECURSIVE WrapParagraphs(_, _, _, _, _)
WrapParagraphs(allLines, paragraphs, maxWidth, fontSize, cfg) ==
  IF paragraphs = <<>> THEN allLines
  ELSE WrapParagraphs(WrapParagraph(allLines, Head(paragraphs), maxWidth, fontSize, cfg),
                      Tail(paragraphs), maxWidth, fontSize, cfg)

wrapText(text, maxWidth, fontSize, cfg) ==
  WrapParagraphs(<<>>, SplitNewline(text), maxWidth, fontSize, cfg)

\* ------------------------------------------------------------ truncateTextToMaxLines

\* What a call gives: the value it returns, or the error it throws.
Returned(v) == [threw |-> FALSE, value |-> v, name |-> ""]
Threw(errorName) == [threw |-> TRUE, value |-> <<>>, name |-> errorName]

Ellipsis == <<CH.dot, CH.dot, CH.dot>>

\* The ellipsis appended whatever the length of the line.
WithEllipsis_AlwaysAppend(lastLine) == lastLine \o Ellipsis

\* lastLine with the ellipsis, lines 129-135.
WithEllipsis(lastLine) ==
  IF Len(lastLine) > 10
  THEN SubSeq(lastLine, 1, Len(lastLine) - 3) \o Ellipsis
  ELSE lastLine \o Ellipsis

\* The early return taken one line too late.
WithinCap_OffByOne(lines, maxLines) == Len(lines) < maxLines

WithinCap(lines, maxLines) == Len(lines) <= maxLines

\* lines[maxLines - 1] is undefined when maxLines < 1, and reading its length
\* throws a TypeError.
truncateTextToMaxLines(lines, maxLines) ==
  IF WithinCap(lines, maxLines) THEN Returned(lines)
  ELSE IF maxLines < 1 THEN Threw("TypeError")
  ELSE Returned(Append(SubSeq(lines, 1, maxLines - 1), WithEllipsis(lines[maxLines])))

\* ------------------------------------------------------------ layout planner

\* A title or author that is undefined or '' is falsy; both are the empty sequence.
Present(text) == text # <<>>

BaseSizes(cfg) ==
  [quoteFontSize |-> cfg.font.sizes.quote.base,
   titleFontSize |-> cfg.font.sizes.title.base,
   authorFontSize |-> cfg.font.sizes.author.base]

MinSizes(cfg) ==
  [quoteFontSize |-> cfg.font.sizes.quote.min,
   titleFontSize |-> cfg.font.sizes.title.min,
   authorFontSize |-> cfg.font.sizes.author.min]

\* Lines of a section at a font size; an absent title or author has none.
SectionLines(text, fontSize, cfg) ==
  IF Present(text) THEN wrapText(text, getMaxTextWidth(cfg), fontSize, cfg) ELSE <<>>

\* Each section sized on its own line count.
calculateOptimalFontSizes_PerSection(data, cfg) ==
  LET base == BaseSizes(cfg)
      min == MinSizes(cfg)
      quoteLines == wrapText(data.quote, getMaxTextWidth(cfg), base.quoteFontSize, cfg)
      titleLines == SectionLines(data.title, base.titleFontSize, cfg)
      authorLines == SectionLines(data.author, base.authorFontSize, cfg)
  IN [quoteFontSize |-> IF Len(quoteLines) > cfg.text.maxLines.quote
                        THEN min.quoteFontSize ELSE base.quoteFontSize,
      titleFontSize |-> IF Len(titleLines) > cfg.text.maxLines.title
                        THEN min.titleFontSize ELSE base.titleFontSize,
      authorFontSize |-> IF Len(authorLines) > cfg.text.maxLines.author
                         THEN min.authorFontSize ELSE base.authorFontSize]

calculateOptimalFontSizes(data, cfg) ==
  LET base == BaseSizes(cfg)
      quoteLines == wrapText(data.quote, getMaxTextWidth(cfg), base.quoteFontSize, cfg)
      titleLines == SectionLines(data.title, base.titleFontSize, cfg)
      authorLines == SectionLines(data.author, base.authorFontSize, cfg)
  IN IF \/ Len(quoteLines) > cfg.text.maxLines.quote
        \/ Len(titleLines) > cfg.text.maxLines.title
        \/ Len(authorLines) > cfg.text.maxLines.author
     THEN MinSizes(cfg)
     ELSE base

\* The truncated lines of the three sections at the given sizes, as both
\* calculateRequiredHeight and generateQuoteImage prepare them.
\* The quote's lines as wrapped, none cut off.
QuoteLinesAt_Untruncated(data, sizes, cfg) ==
  Returned(wrapText(data.quote, getMaxTextWidth(cfg), sizes.quoteFontSize, cfg))

QuoteLinesAt(data, sizes, cfg) ==
  truncateTextToMaxLines(
    wrapText(data.quote, getMaxTextWidth(cfg), sizes.quoteFontSize, cfg),
    cfg.text.maxLines.quote)

TitleLinesAt(data, sizes, cfg) ==
  IF Present(data.title)
  THEN truncateTextToMaxLines(
         wrapText(data.title, getMaxTextWidth(cfg), sizes.titleFontSize, cfg),
         cfg.text.maxLines.title)
  ELSE Returned(<<>>)

AuthorLinesAt(data, sizes, cfg) ==
  IF Present(data.author)
  THEN truncateTextToMaxLines(
         wrapText(data.author, getMaxTextWidth(cfg), sizes.authorFontSize, cfg),
         cfg.text.maxLines.author)
  ELSE Returned(<<>>)

\* The gap after the quote added only when a title or an author follows.
calculateRequiredHeight_GapOnlyBeforeSection(data, sizes, cfg) ==
  LET q == QuoteLinesAt(data, sizes, cfg)
      t == TitleLinesAt(data, sizes, cfg)
      a == AuthorLinesAt(data, sizes, cfg)
      afterQuote == cfg.spacing.startY
                    + Len(q.value) * (sizes.quoteFontSize + cfg.spacing.lineGap.quote)
                    + (IF Present(data.title) \/ Present(data.author)
                       THEN cfg.spacing.sectionGap.afterQuote ELSE 0)
      afterTitle == IF Present(data.title)
                    THEN afterQuote
                         + Len(t.value) * (sizes.titleFontSize + cfg.spacing.lineGap.title)
                         + cfg.spacing.sectionGap.afterTitle
                    ELSE afterQuote
      afterAuthor == IF Present(data.author)
                     THEN afterTitle
                          + Len(a.value) * (sizes.authorFontSize + cfg.spacing.lineGap.author)
                     ELSE afterTitle
  IN IF q.threw THEN q
     ELSE IF t.threw THEN t
     ELSE IF a.threw THEN a
     ELSE Returned(afterAuthor + cfg.canvas.footerHeight)

\* The first of the three truncations to throw ends the call.
calculateRequiredHeight(data, sizes, cfg) ==
  LET q == QuoteLinesAt(data, sizes, cfg)
      t == TitleLinesAt(data, sizes, cfg)
      a == AuthorLinesAt(data, sizes, cfg)
      afterQuote == cfg.spacing.startY
                    + Len(q.value) * (sizes.quoteFontSize + cfg.spacing.lineGap.quote)
                    + cfg.spacing.sectionGap.afterQuote
      afterTitle == IF Present(data.title)
                    THEN afterQuote
                         + Len(t.value) * (sizes.titleFontSize + cfg.spacing.lineGap.title)
                         + cfg.spacing.sectionGap.afterTitle
                    ELSE afterQuote
      afterAuthor == IF Present(data.author)
                     THEN afterTitle
                          + Len(a.value) * (sizes.authorFontSize + cfg.spacing.lineGap.author)
                     ELSE afterTitle
  IN IF q.threw THEN q
     ELSE IF t.threw THEN t
     ELSE IF a.threw THEN a
     ELSE Returned(afterAuthor + cfg.canvas.footerHeight)

Max(x, y) == IF x >= y THEN x ELSE y
Min(x, y) == IF x <= y THEN x ELSE y

\* The clamp without its upper bound.
ClampHeight_NoUpperBound(cfg, required) == Max(cfg.canvas.minHeight, required)

\* Math.max(minHeight, Math.min(maxHeight, requiredHeight))
ClampHeight(cfg, required) ==
  Max(cfg.canvas.minHeight, Min(cfg.canvas.maxHeight, required))

\* ------------------------------------------------------------ validation

Success(d) == [success |-> TRUE, data |-> d, error |-> ""]
Failure(e) == [success |-> FALSE, data |-> <<>>, error |-> e]

\* The value handed back as it came.
createNonEmptyString_Untrimmed(value) ==
  IF Len(Trim(value)) = 0 THEN Failure("String cannot be empty")
  ELSE Success(value)

createNonEmptyString(value) ==
  LET trimmed == Trim(value)
  IN IF Len(trimmed) = 0 THEN Failure("String cannot be empty")
     ELSE Success(trimmed)

\* The error message is the prefix followed by createNonEmptyString's error; on
\* success the data is the quoteData it was given.
validateQuoteData(data) ==
  LET nonEmpty == createNonEmptyString(data.quote)
  IN IF ~nonEmpty.success
     THEN [success |-> FALSE, data |-> data,
           error |-> <<"Quote text is required: ", nonEmpty.error>>]
     ELSE [success |-> TRUE, data |-> data, error |-> <<>>]

\* The extension looked for in the path as given.
validateOutputPath_Untrimmed(path) ==
  IF path = <<>> THEN Failure("Output path cannot be empty")
  ELSE IF ~EndsWith(path, DotPng) THEN Failure("Output path must have .png extension")
  ELSE Success(path)

validateOutputPath(path) ==
  IF path = <<>> \/ Trim(path) = <<>> THEN Failure("Output path cannot be empty")
  ELSE IF ~EndsWith(Trim(path), DotPng)
       THEN Failure("Output path must have .png extension")
       ELSE Success(Trim(path))

\* ------------------------------------------------------------ one call of wrapText

MaxLen == 4

WrapAlphabet == {CH.a, CH.sp, CH.hira, CH.comma, CH.paren, CH.nl}
PlainTexts == UNION {[1..k -> WrapAlphabet] : k \in 0..MaxLen}

\* Texts that hold one character outside the BMP (two code units).
EmojiAlphabet == {CH.a, CH.hira, CH.comma, CH.paren}
EmojiParts == UNION {[1..k -> EmojiAlphabet] : k \in 0..(MaxLen - 1)}
EmojiTexts ==
  {pre \o <<CH.hi, CH.lo>> \o post :
     <<pre, post>> \in {pp \in EmojiParts \X EmojiParts : Len(pp[1]) + Len(pp[2]) < MaxLen}}

WrapTexts == PlainTexts \cup EmojiTexts

\* Longer texts over a half-width line-start-prohibited character, a full-width
\* letter and a line-end-prohibited character.
CarryAlphabet == {CH.ellipsis, CH.hira, CH.paren}
CarryTexts == [1..(MaxLen + 1) -> CarryAlphabet]
WrapWidths == {16, 32, 48}
WrapFontSizes == {12, 16}

\* A configuration with kinsoku processing switched off.
NoKinsokuConfig ==
  [DEFAULT_CONFIG EXCEPT !.text.kinsoku =
     [lineStartProhibited |-> {}, lineEndProhibited |-> {}]]

WrapConfigs == {DEFAULT_CONFIG, NoKinsokuConfig}

WrapIdle ==
  /\ wText = <<>> /\ wMaxWidth = 0 /\ wFontSize = 0
  /\ wConfig = DEFAULT_CONFIG /\ wLines = <<>> /\ wpc = "idle"

TruncIdle ==
  /\ tLines = <<>> /\ tMaxLines = 0 /\ tResult = Returned(<<>>)
  /\ tAgain = Returned(<<>>) /\ tpc = "idle"

NoFontSizes == [quoteFontSize |-> 0, titleFontSize |-> 0, authorFontSize |-> 0]
NoLayout == [quoteLines |-> <<>>, titleLines |-> <<>>, authorLines |-> <<>>, endY |-> 0]
NoError == [name |-> "", code |-> "", message |-> <<>>, context |-> {}]
NoQuoteData == [quote |-> <<>>, title |-> <<>>, author |-> <<>>]

\* Nothing of a generateQuoteImage call has run.
GenFresh ==
  /\ dirCreated = FALSE /\ fileWritten = FALSE
  /\ quoteResult = Failure("")
  /\ quoteValidation = [success |-> FALSE, data |-> NoQuoteData, error |-> <<>>]
  /\ pathValidation = Failure("")
  /\ fontSizes = NoFontSizes /\ requiredHeight = 0 /\ canvasHeight = 0
  /\ layout = NoLayout /\ error = NoError

GenIdle ==
  /\ quoteData = NoQuoteData
  /\ outputPath = <<>> /\ config = DEFAULT_CONFIG /\ pc = "idle"
  /\ fsDirExists = FALSE /\ fsWriteFails = FALSE
  /\ GenFresh

\* 'あいうえおかきくけこ、さしすせそ', wrapped at width 160 and font size 16.
KinsokuSample ==
  <<12354, 12356, 12358, 12360, 12362, 12363, 12365, 12367, 12369, 12371,
    12289, 12373, 12375, 12377, 12379, 12381>>
KinsokuSampleWidth == 160
KinsokuSampleFontSize == 16

\* A value that may be undefined.
Some(v) == [defined |-> TRUE, value |-> v]
Undefined == [defined |-> FALSE, value |-> <<>>]

NoCliArgs == [quote |-> <<>>, title |-> Undefined, author |-> Undefined, output |-> <<>>]
CliReturned(result) == [threw |-> FALSE, value |-> result, error |-> NoError]
CliThrew(err) == [threw |-> TRUE, value |-> NoCliArgs, error |-> err]

CmdIdle ==
  /\ cOptions = [quote |-> Undefined, title |-> Undefined, author |-> Undefined,
                 output |-> Undefined]
  /\ cParse = "parsed" /\ cNow = 0 /\ cResult = CliReturned(NoCliArgs) /\ cpc = "idle"

ArgIdle ==
  /\ aArgs = <<>> /\ aNow = 0 /\ aResult = CliReturned(NoCliArgs) /\ apc = "idle"

\* A thrown value, as far as handleAsyncError looks at it: whether it is an
\* Error and whether it has a code property.
ErrorValue(kind, isError, hasCode, code) ==
  [kind |-> kind, isError |-> isError, hasCode |-> hasCode, code |-> code]
NoValue == ErrorValue("none", FALSE, FALSE, "")

NoOutcome == [resolves |-> FALSE, value |-> 0, thrown |-> NoValue]
NoWrappedCall ==
  [state |-> "none", outcome |-> NoOutcome, operation |-> "", argCount |-> 0,
   timestamp |-> 0, logBefore |-> <<>>, logAfter |-> <<>>, result |-> NoOutcome]

LogIdle ==
  /\ instance = 0 /\ instancesMade = 0 /\ handles = {} /\ errorLog = <<>>
  /\ history = <<>> /\ wrapped = NoWrappedCall /\ steps = 0

\* The state of the character loop: currentLine, currentWidth (in half pixels)
\* and allLines.
LoopStart == [currentLine |-> <<>>, currentWidth |-> 0, allLines |-> <<>>]
NoStep == [broke |-> FALSE, before |-> LoopStart, char |-> 0]

StepIdle ==
  /\ sChars = <<>> /\ sMaxWidth = 0 /\ sFontSize = 0 /\ sConfig = DEFAULT_CONFIG
  /\ sIndex = 0 /\ sState = LoopStart /\ sLast = NoStep

\* What the App shows: the text of the message and, for the success message,
\* the path appended to it.
Message(parts, path) == [parts |-> parts, path |-> path]

AppIdle ==
  /\ appOptions = [quote |-> Undefined, title |-> Undefined, author |-> Undefined,
                   output |-> Undefined]
  /\ appParse = "parsed" /\ appNow = 0
  /\ appMkdirFails = FALSE /\ appWriteFails = FALSE
  /\ appPc = "idle" /\ parsedArgs = NoCliArgs
  /\ status = "parsing" /\ appMessage = Message(<<>>, <<>>)
  /\ shownOutputPath = <<>> /\ errorCode = "" /\ statusTrace = <<>>

InitWrap ==
  /\ \/ /\ wText \in WrapTexts \cup CarryTexts
        /\ wMaxWidth \in WrapWidths
        /\ wFontSize \in WrapFontSizes
     \/ /\ wText = KinsokuSample
        /\ wMaxWidth = KinsokuSampleWidth
        /\ wFontSize = KinsokuSampleFontSize
  /\ wConfig \in WrapConfigs
  /\ wLines = <<>>
  /\ wpc = "ready"
  /\ TruncIdle /\ GenIdle /\ CmdIdle /\ ArgIdle /\ LogIdle /\ StepIdle /\ AppIdle

CallWrapText ==
  /\ wpc = "ready"
  /\ wLines' = wrapText(wText, wMaxWidth, wFontSize, wConfig)
  /\ wpc' = "done"
  /\ UNCHANGED <<wText, wMaxWidth, wFontSize, wConfig, truncVars, genVars, cmdVars, argVars,
                 logVars, stepVars, appVars>>

NextWrap == CallWrapText

SpecWrap == InitWrap /\ [][NextWrap]_vars

\* ------------------------------------------------------------ one call of truncateTextToMaxLines

MaxTruncLines == 3
MaxCap == 3

TruncLineSamples == {<<>>, Rep(CH.a, 3), Rep(CH.hira, 10), Rep(CH.a, 11)}
TruncInputs == UNION {[1..k -> TruncLineSamples] : k \in 0..MaxTruncLines}

InitTrunc ==
  /\ tLines \in TruncInputs
  /\ tMaxLines \in 0..MaxCap
  /\ tResult = Returned(<<>>)
  /\ tAgain = Returned(<<>>)
  /\ tpc = "ready"
  /\ WrapIdle /\ GenIdle /\ CmdIdle /\ ArgIdle /\ LogIdle /\ StepIdle /\ AppIdle

CallTruncate ==
  /\ tpc = "ready"
  /\ tResult' = truncateTextToMaxLines(tLines, tMaxLines)
  /\ tpc' = "truncated"
  /\ UNCHANGED <<tLines, tMaxLines, tAgain, wrapVars, genVars, cmdVars,
                 argVars, logVars, stepVars, appVars>>

\* The result of a truncation truncated again with the same cap.
CallTruncateAgain ==
  /\ tpc = "truncated"
  /\ ~tResult.threw
  /\ tAgain' = truncateTextToMaxLines(tResult.value, tMaxLines)
  /\ tpc' = "again"
  /\ UNCHANGED <<tLines, tMaxLines, tResult, wrapVars, genVars, cmdVars,
                 argVars, logVars, stepVars, appVars>>

NextTrunc == CallTruncate \/ CallTruncateAgain

SpecTrunc == InitTrunc /\ [][NextTrunc]_vars

\* C5: for every line sequence with at least N lines, truncateTextToMaxLines(lines, N)
\* returns exactly N lines.
C5_ExactlyNLines ==
  (tpc \in {"truncated", "again"} /\ Len(tLines) >= tMaxLines) =>
    (~tResult.threw /\ Len(tResult.value) = tMaxLines)

\* C6: truncateTextToMaxLines returns its input unchanged when the input has at
\* most maxLines lines, and truncating a result again with the same maxLines
\* returns that result unchanged.
C6_UnchangedAndIdempotent ==
  /\ (tpc \in {"truncated", "again"} /\ Len(tLines) <= tMaxLines) =>
       tResult = Returned(tLines)
  /\ tpc = "again" => tAgain = tResult

\* A sequence that was really cut and marked, then truncated again.
C6_Witness ==
  /\ tpc = "again"
  /\ Len(tLines) > tMaxLines
  /\ tResult.value # tLines
  /\ tAgain = tResult

\* ------------------------------------------------------------ one call of generateQuoteImage

QuoteLen == 5

NarrowConfig ==
  [canvas |-> [width |-> 48, minHeight |-> 40, maxHeight |-> 60,
               margin |-> 8, footerHeight |-> 5],
   font |-> [sizes |-> [quote |-> [base |-> 16, min |-> 8],
                        title |-> [base |-> 12, min |-> 8],
                        author |-> [base |-> 8, min |-> 4]]],
   text |-> [maxLines |-> [quote |-> 2, title |-> 1, author |-> 1],
             kinsoku |-> [lineStartProhibited |-> DefaultLineStartProhibited,
                          lineEndProhibited |-> DefaultLineEndProhibited]],
   spacing |-> [startY |-> 10,
                sectionGap |-> [afterQuote |-> 4, afterTitle |-> 2],
                lineGap |-> [quote |-> 2, title |-> 2, author |-> 1]]]

\* minHeight above maxHeight.
InvertedHeightConfig ==
  [NarrowConfig EXCEPT !.canvas.minHeight = 60, !.canvas.maxHeight = 40]

\* No line allowed for the author.
NoAuthorLinesConfig == [NarrowConfig EXCEPT !.text.maxLines.author = 0]

Configs == {DEFAULT_CONFIG, NarrowConfig, InvertedHeightConfig, NoAuthorLinesConfig}

Quotes ==
  {<<>>, <<CH.sp, CH.sp>>, <<CH.sp, CH.nl>>,
   <<CH.sp, CH.sp, CH.H, CH.i, CH.sp, CH.sp>>,
   Rep(CH.hira, QuoteLen - 1), Rep(CH.hira, QuoteLen), Rep(CH.hira, 2 * QuoteLen)}
Titles == {<<>>, <<CH.a>>, Rep(CH.hira, QuoteLen)}
Authors == {<<>>, <<CH.a>>, Rep(CH.a, 2 * QuoteLen)}

DotJpg == <<CH.dot, CH.j, CH.p, CH.g>>
Paths ==
  {pre \o stem \o ext \o post :
     pre \in {<<>>, <<CH.sp>>}, stem \in {<<>>, <<CH.a, CH.slash, CH.o>>},
     ext \in {<<>>, DotPng, DotJpg}, post \in {<<>>, <<CH.sp>>}}

\* A text of n lines: a letter, then n - 1 empty paragraphs.
LinesOf(n) == <<CH.a>> \o Rep(CH.nl, n - 1)

\* Texts at and over the line caps of the default configuration.
TallQuotes ==
  {LinesOf(n) : n \in {DEFAULT_CONFIG.text.maxLines.quote,
                       DEFAULT_CONFIG.text.maxLines.quote + 1,
                       3 * DEFAULT_CONFIG.text.maxLines.quote + 1}}
TallTitles ==
  {<<>>} \cup {LinesOf(n) : n \in {DEFAULT_CONFIG.text.maxLines.title,
                                   DEFAULT_CONFIG.text.maxLines.title + 1}}
TallAuthors ==
  {<<>>} \cup {LinesOf(n) : n \in {DEFAULT_CONFIG.text.maxLines.author,
                                   DEFAULT_CONFIG.text.maxLines.author + 1}}
TallOutputPath == <<CH.a, CH.slash, CH.o>> \o DotPng

Init ==
  /\ \/ /\ quoteData \in [quote : Quotes, title : Titles, author : Authors]
        /\ outputPath \in Paths
        /\ config \in Configs
     \/ /\ quoteData \in [quote : TallQuotes, title : TallTitles, author : TallAuthors]
        /\ outputPath = TallOutputPath
        /\ config = DEFAULT_CONFIG
  /\ fsDirExists \in BOOLEAN
  /\ fsWriteFails \in BOOLEAN
  /\ pc = "start"
  /\ GenFresh
  /\ WrapIdle /\ TruncIdle /\ CmdIdle /\ ArgIdle /\ LogIdle /\ StepIdle /\ AppIdle

QuottoError(message, code, contextKeys) ==
  [name |-> "QuottoError", code |-> code, message |-> message, context |-> contextKeys]

\* Lines 393-398.
ValidateQuote ==
  /\ pc = "start"
  /\ quoteResult' = createNonEmptyString(quoteData.quote)
  /\ quoteValidation' = validateQuoteData(quoteData)
  /\ IF ~quoteValidation'.success
     THEN /\ error' = QuottoError(quoteValidation'.error, "EMPTY_QUOTE", {"quoteData"})
          /\ pc' = "rejected"
     ELSE /\ error' = error
          /\ pc' = "quoteValid"
  /\ UNCHANGED <<quoteData, outputPath, config, fsDirExists, fsWriteFails, dirCreated, fileWritten,
                 pathValidation, fontSizes, requiredHeight, canvasHeight, layout,
                 wrapVars, truncVars, cmdVars, argVars, logVars, stepVars, appVars>>

\* Lines 400-405.
ValidatePath ==
  /\ pc = "quoteValid"
  /\ pathValidation' = validateOutputPath(outputPath)
  /\ IF ~pathValidation'.success
     THEN /\ error' = QuottoError(<<pathValidation'.error>>, "INVALID_OUTPUT_PATH",
                                  {"outputPath"})
          /\ pc' = "rejected"
     ELSE /\ error' = error
          /\ pc' = "pathValid"
  /\ UNCHANGED <<quoteData, outputPath, config, fsDirExists, fsWriteFails, dirCreated, fileWritten,
                 quoteResult, quoteValidation, fontSizes, requiredHeight, canvasHeight,
                 layout, wrapVars, truncVars, cmdVars, argVars, logVars, stepVars, appVars>>

\* mkdirSync moved above the path validation.
EnsureDir_BeforePathValidation ==
  \/ /\ pc = "quoteValid"
     /\ ~fsDirExists
     /\ fsDirExists' = TRUE
     /\ dirCreated' = TRUE
     /\ UNCHANGED <<pc, error, quoteData, outputPath, config, fsWriteFails, fileWritten, quoteResult,
                    quoteValidation, pathValidation, fontSizes, requiredHeight,
                    canvasHeight, layout, wrapVars, truncVars, cmdVars, argVars, logVars, stepVars, appVars>>
  \/ /\ pc = "pathValid"
     /\ pc' = "dirReady"
     /\ UNCHANGED <<error, fsDirExists, dirCreated, quoteData, outputPath, config,
                    fsWriteFails, fileWritten, quoteResult, quoteValidation, pathValidation,
                    fontSizes, requiredHeight, canvasHeight, layout, wrapVars,
                    truncVars, cmdVars, argVars, logVars, stepVars, appVars>>

\* Lines 407-410: the directory exists, mkdirSync creates it, or mkdirSync throws
\* (its error is not caught).
EnsureDir ==
  /\ pc = "pathValid"
  /\ \/ /\ fsDirExists
        /\ pc' = "dirReady"
        /\ UNCHANGED <<fsDirExists, dirCreated, error>>
     \/ /\ ~fsDirExists
        /\ fsDirExists' = TRUE
        /\ dirCreated' = TRUE
        /\ pc' = "dirReady"
        /\ error' = error
     \/ /\ ~fsDirExists
        /\ pc' = "rejected"
        /\ error' = [name |-> "Error", code |-> "", message |-> <<"mkdir">>,
                     context |-> {}]
        /\ UNCHANGED <<fsDirExists, dirCreated>>
  /\ UNCHANGED <<quoteData, outputPath, config, fsWriteFails, fileWritten, quoteResult,
                 quoteValidation, pathValidation, fontSizes, requiredHeight,
                 canvasHeight, layout, wrapVars, truncVars, cmdVars, argVars, logVars, stepVars, appVars>>

\* Lines 412-414.
ChooseFontSizes ==
  /\ pc = "dirReady"
  /\ fontSizes' = calculateOptimalFontSizes(quoteData, config)
  /\ pc' = "sized"
  /\ UNCHANGED <<quoteData, outputPath, config, fsDirExists, fsWriteFails, dirCreated, fileWritten,
                 quoteResult, quoteValidation, pathValidation, requiredHeight,
                 canvasHeight, layout, error, wrapVars, truncVars, cmdVars, argVars, logVars, stepVars, appVars>>

\* Lines 416-421.
MeasureHeight ==
  /\ pc = "sized"
  /\ LET required == calculateRequiredHeight(quoteData, fontSizes, config)
     IN IF required.threw
        THEN /\ pc' = "rejected"
             /\ error' = [name |-> required.name, code |-> "",
                          message |-> <<"reading 'length' of undefined">>,
                          context |-> {}]
             /\ UNCHANGED <<requiredHeight, canvasHeight>>
        ELSE /\ requiredHeight' = required.value
             /\ canvasHeight' = ClampHeight(config, required.value)
             /\ pc' = "measured"
             /\ error' = error
  /\ UNCHANGED <<quoteData, outputPath, config, fsDirExists, fsWriteFails, dirCreated, fileWritten,
                 quoteResult, quoteValidation, pathValidation, fontSizes, layout,
                 wrapVars, truncVars, cmdVars, argVars, logVars, stepVars, appVars>>

\* The author placed right after the title, without the gap.
PlaceLines_NoTitleGap ==
  /\ pc = "measured"
  /\ LET q == QuoteLinesAt(quoteData, fontSizes, config).value
         t == TitleLinesAt(quoteData, fontSizes, config).value
         a == AuthorLinesAt(quoteData, fontSizes, config).value
         quoteEndY == config.spacing.startY
                      + Len(q) * (fontSizes.quoteFontSize + config.spacing.lineGap.quote)
         titleStartY == quoteEndY + config.spacing.sectionGap.afterQuote
         titleEndY == titleStartY
                      + Len(t) * (fontSizes.titleFontSize + config.spacing.lineGap.title)
         authorStartY == titleEndY
         authorEndY == authorStartY
                       + Len(a) * (fontSizes.authorFontSize + config.spacing.lineGap.author)
     IN layout' = [quoteLines |-> q, titleLines |-> t, authorLines |-> a,
                   endY |-> authorEndY]
  /\ pc' = "rendered"
  /\ UNCHANGED <<quoteData, outputPath, config, fsDirExists, fsWriteFails, dirCreated, fileWritten,
                 quoteResult, quoteValidation, pathValidation, fontSizes,
                 requiredHeight, canvasHeight, error, wrapVars, truncVars, cmdVars, argVars, logVars, stepVars, appVars>>

\* Lines 425-467: the lines of the three sections and the Y position after the
\* last of them.  The truncations are those MeasureHeight already made, so
\* none throws here.
PlaceLines ==
  /\ pc = "measured"
  /\ LET q == QuoteLinesAt(quoteData, fontSizes, config).value
         t == TitleLinesAt(quoteData, fontSizes, config).value
         a == AuthorLinesAt(quoteData, fontSizes, config).value
         quoteEndY == config.spacing.startY
                      + Len(q) * (fontSizes.quoteFontSize + config.spacing.lineGap.quote)
         titleStartY == quoteEndY + config.spacing.sectionGap.afterQuote
         titleEndY == titleStartY
                      + Len(t) * (fontSizes.titleFontSize + config.spacing.lineGap.title)
         authorStartY == titleEndY
                         + (IF Len(t) > 0 THEN config.spacing.sectionGap.afterTitle ELSE 0)
         authorEndY == authorStartY
                       + Len(a) * (fontSizes.authorFontSize + config.spacing.lineGap.author)
     IN layout' = [quoteLines |-> q, titleLines |-> t, authorLines |-> a,
                   endY |-> authorEndY]
  /\ pc' = "rendered"
  /\ UNCHANGED <<quoteData, outputPath, config, fsDirExists, fsWriteFails, dirCreated, fileWritten,
                 quoteResult, quoteValidation, pathValidation, fontSizes,
                 requiredHeight, canvasHeight, error, wrapVars, truncVars, cmdVars, argVars, logVars, stepVars, appVars>>

\* The catch block returning instead of throwing.
WriteFile_Swallowed ==
  /\ pc = "rendered"
  /\ fileWritten' = ~fsWriteFails
  /\ pc' = "resolved"
  /\ UNCHANGED <<error, quoteData, outputPath, config, fsDirExists, fsWriteFails,
                 dirCreated, quoteResult, quoteValidation, pathValidation, fontSizes,
                 requiredHeight, canvasHeight, layout, wrapVars, truncVars, cmdVars, argVars, logVars, stepVars, appVars>>

\* Lines 484-495: sharp writes the file, or fails (the destination is an
\* existing directory, say) and the error is wrapped and thrown.
WriteFile ==
  /\ pc = "rendered"
  /\ IF ~fsWriteFails
     THEN /\ fileWritten' = TRUE
          /\ pc' = "resolved"
          /\ error' = error
     ELSE /\ error' = QuottoError(<<"Failed to write image file: ", "(cause)">>,
                                  "FILE_WRITE_FAILED", {"outputPath", "error"})
          /\ pc' = "rejected"
          /\ UNCHANGED fileWritten
  /\ UNCHANGED <<quoteData, outputPath, config, fsDirExists, fsWriteFails, dirCreated,
                 quoteResult, quoteValidation, pathValidation, fontSizes,
                 requiredHeight, canvasHeight, layout, wrapVars, truncVars, cmdVars, argVars, logVars, stepVars, appVars>>

Next ==
  \/ ValidateQuote
  \/ ValidatePath
  \/ EnsureDir
  \/ ChooseFontSizes
  \/ MeasureHeight
  \/ PlaceLines
  \/ WriteFile

Spec == Init /\ [][Next]_vars

Range(s) == {s[i] : i \in DOMAIN s}

OneParagraph(text) == CH.nl \notin Range(text)

\* C1: every line wrapText returns has estimated pixel width at most maxWidth,
\* unless the line is a single character whose own width exceeds maxWidth.
C1_EveryLineFits ==
  wpc = "done" =>
    \A i \in DOMAIN wLines :
      \/ LineWidth2(wLines[i], wFontSize) <= 2 * wMaxWidth
      \/ Len(wLines[i]) = 1

\* C1 (amended): a line wrapText returns exceeds maxWidth only if it holds at
\* most three characters (up to two carried across a break plus the incoming
\* one) and maxWidth is below 3 x fontSize; every other line fits.
C1_LineFitsUnlessCarried ==
  wpc = "done" =>
    \A i \in DOMAIN wLines :
      \/ LineWidth2(wLines[i], wFontSize) <= 2 * wMaxWidth
      \/ (Len(wLines[i]) <= 3 /\ wMaxWidth < 3 * wFontSize)

\* A wrapped text at a width of at least 3 x fontSize with a line exactly full.
C1_Witness ==
  /\ wpc = "done"
  /\ wMaxWidth >= 3 * wFontSize
  /\ Len(wLines) >= 2
  /\ \E i \in DOMAIN wLines : LineWidth2(wLines[i], wFontSize) = 2 * wMaxWidth

\* C2: no non-empty line wrapText returns starts with a line-start-prohibited
\* character, except a line of a single character.  Stated for the lines the
\* wrapper itself started (the second and later lines of a one-paragraph text):
\* the first line of a paragraph starts where the text starts.
C2_NoLineStartsProhibited ==
  (wpc = "done" /\ OneParagraph(wText)) =>
    \A i \in 2..Len(wLines) :
      \/ Len(wLines[i]) <= 1
      \/ wLines[i][1] \notin wConfig.text.kinsoku.lineStartProhibited

\* C3: no non-empty line wrapText returns ends with a line-end-prohibited
\* character, except when fewer than 2 characters are there to redistribute.
\* Stated for the lines the wrapper itself ended (every line but the last of a
\* one-paragraph text) that hold at least 2 characters.
C3_NoLineEndsProhibited ==
  (wpc = "done" /\ OneParagraph(wText)) =>
    \A i \in 1..(Len(wLines) - 1) :
      \/ Len(wLines[i]) < 2
      \/ wLines[i][Len(wLines[i])] \notin wConfig.text.kinsoku.lineEndProhibited


\* ------------------------------------------------------------ properties of generateQuoteImage

\* A string without its leading and trailing white space, by position.
NonWhite(str) == {k \in DOMAIN str : ~IsWhiteSpace(str[k])}
Core(str) ==
  IF NonWhite(str) = {} THEN <<>>
  ELSE SubSeq(str, CHOOSE k \in NonWhite(str) : \A m \in NonWhite(str) : k <= m,
                   CHOOSE k \in NonWhite(str) : \A m \in NonWhite(str) : k >= m)

QuoteValidated == pc \notin {"idle", "start"}
PathValidated ==
  /\ pc \notin {"idle", "start", "quoteValid"}
  /\ ~(pc = "rejected" /\ error.code = "EMPTY_QUOTE")
SizesChosen == fontSizes # NoFontSizes
HeightDerived ==
  \/ pc \in {"measured", "rendered", "resolved"}
  \/ (pc = "rejected" /\ error.code = "FILE_WRITE_FAILED")

\* C4: the canvas height generateQuoteImage derives lies within
\* [canvas.minHeight, canvas.maxHeight], for every input and configuration.
C4_HeightWithinRange ==
  HeightDerived =>
    (config.canvas.minHeight <= canvasHeight /\ canvasHeight <= config.canvas.maxHeight)

\* C4 (amended): the canvas height is at least canvas.minHeight, and at most
\* canvas.maxHeight in every configuration whose minHeight is not above its
\* maxHeight.
C4_HeightClamped ==
  HeightDerived =>
    /\ canvasHeight >= config.canvas.minHeight
    /\ config.canvas.minHeight <= config.canvas.maxHeight =>
         canvasHeight <= config.canvas.maxHeight

\* The content is taller than maxHeight and the canvas is cut to maxHeight.
C4_Witness ==
  /\ HeightDerived
  /\ config.canvas.minHeight <= config.canvas.maxHeight
  /\ requiredHeight > config.canvas.maxHeight
  /\ canvasHeight = config.canvas.maxHeight

OverflowsAtBase(text, base, cap) ==
  Present(text) /\ Len(wrapText(text, getMaxTextWidth(config), base, config)) > cap

\* C7: calculateOptimalFontSizes returns the three minimum sizes when at least
\* one present section, wrapped at its base size, has more lines than its
\* maxLines, and the three base sizes otherwise; never a mix.
C7_AllOrNothingSizes ==
  SizesChosen =>
    fontSizes =
      IF \/ OverflowsAtBase(quoteData.quote, config.font.sizes.quote.base,
                            config.text.maxLines.quote)
         \/ OverflowsAtBase(quoteData.title, config.font.sizes.title.base,
                            config.text.maxLines.title)
         \/ OverflowsAtBase(quoteData.author, config.font.sizes.author.base,
                            config.text.maxLines.author)
      THEN [quoteFontSize |-> config.font.sizes.quote.min,
            titleFontSize |-> config.font.sizes.title.min,
            authorFontSize |-> config.font.sizes.author.min]
      ELSE [quoteFontSize |-> config.font.sizes.quote.base,
            titleFontSize |-> config.font.sizes.title.base,
            authorFontSize |-> config.font.sizes.author.base]

\* Only the quote is too long at base size; title and author are present, would
\* fit at base size, and are at their minimum sizes all the same.
C7_Witness ==
  /\ SizesChosen
  /\ OverflowsAtBase(quoteData.quote, config.font.sizes.quote.base,
                     config.text.maxLines.quote)
  /\ Present(quoteData.title) /\ Present(quoteData.author)
  /\ ~OverflowsAtBase(quoteData.title, config.font.sizes.title.base,
                      config.text.maxLines.title)
  /\ ~OverflowsAtBase(quoteData.author, config.font.sizes.author.base,
                      config.text.maxLines.author)
  /\ fontSizes.titleFontSize = config.font.sizes.title.min
  /\ fontSizes.titleFontSize # config.font.sizes.title.base
  /\ fontSizes.authorFontSize = config.font.sizes.author.min
  /\ fontSizes.authorFontSize # config.font.sizes.author.base

RejectedWith(code, message) ==
  pc = "rejected" /\ error.name = "QuottoError" /\ error.code = code
    /\ error.message = message

\* C9: output-path validation fails with INVALID_OUTPUT_PATH when the path is
\* empty ('Output path cannot be empty') and when a non-empty path does not end
\* with '.png' ('Output path must have .png extension'); it succeeds for every
\* path ending in '.png'.
C9_PathValidation ==
  PathValidated =>
    /\ outputPath = <<>> =>
         RejectedWith("INVALID_OUTPUT_PATH", <<"Output path cannot be empty">>)
    /\ (outputPath # <<>> /\ ~EndsWith(outputPath, DotPng)) =>
         RejectedWith("INVALID_OUTPUT_PATH", <<"Output path must have .png extension">>)
    /\ EndsWith(outputPath, DotPng) => pathValidation.success

\* C9 (amended): the same with the path taken without its surrounding white
\* space: 'cannot be empty' when nothing is left, 'must have .png extension'
\* when what is left does not end with '.png', success (yielding what is left)
\* when it does.
C9_PathValidationTrimmed ==
  PathValidated =>
    /\ Core(outputPath) = <<>> =>
         RejectedWith("INVALID_OUTPUT_PATH", <<"Output path cannot be empty">>)
    /\ (Core(outputPath) # <<>> /\ ~EndsWith(Core(outputPath), DotPng)) =>
         RejectedWith("INVALID_OUTPUT_PATH", <<"Output path must have .png extension">>)
    /\ EndsWith(Core(outputPath), DotPng) => pathValidation = Success(Core(outputPath))

\* A path with white space after '.png' passed validation.
C9_Witness ==
  /\ pc = "pathValid"
  /\ outputPath # Core(outputPath)
  /\ ~EndsWith(outputPath, DotPng)
  /\ pathValidation.success

\* C10: both validations complete before any directory is created, any layout
\* is computed or any file is written, and a call whose validation fails
\* rejects with no directory created and no file written.
C10_ValidationFirst ==
  /\ (dirCreated \/ fileWritten \/ SizesChosen \/ requiredHeight # 0 \/ layout # NoLayout)
       => (quoteValidation.success /\ pathValidation.success)
  /\ (QuoteValidated /\ ~quoteValidation.success) =>
       (pc = "rejected" /\ error.code = "EMPTY_QUOTE")
  /\ (PathValidated /\ ~pathValidation.success) =>
       (pc = "rejected" /\ error.code = "INVALID_OUTPUT_PATH")
  /\ (pc = "rejected" /\ error.code \in {"EMPTY_QUOTE", "INVALID_OUTPUT_PATH"}) =>
       (~dirCreated /\ ~fileWritten /\ ~SizesChosen /\ layout = NoLayout)

\* A call rejected for its path, its missing directory left uncreated.
C10_Witness ==
  /\ pc = "rejected"
  /\ error.code = "INVALID_OUTPUT_PATH"
  /\ quoteValidation.success
  /\ ~fsDirExists /\ ~dirCreated /\ ~fileWritten

\* The write of the encoded image has been attempted.
WriteAttempted == layout # NoLayout /\ pc # "rendered"

\* C11: when writing the encoded image fails, generateQuoteImage rejects with a
\* QuottoError of kind FILE_WRITE_FAILED whose message contains 'Failed to
\* write image file' and whose context carries the output path and the
\* original error; a failed write never ends in a successful return.
C11_WriteFailureRaised ==
  /\ (WriteAttempted /\ fsWriteFails) =>
       /\ pc = "rejected"
       /\ error.name = "QuottoError"
       /\ error.code = "FILE_WRITE_FAILED"
       /\ \E k \in DOMAIN error.message : error.message[k] = "Failed to write image file: "
       /\ {"outputPath", "error"} \subseteq error.context
  /\ pc = "resolved" => (fileWritten /\ ~fsWriteFails)

\* A call that passed both validations, laid its lines out and failed to write.
C11_Witness ==
  /\ WriteAttempted
  /\ fsWriteFails
  /\ pc = "rejected"
  /\ error.code = "FILE_WRITE_FAILED"
  /\ ~fileWritten

\* ------------------------------------------------------------ more properties of wrapText

\* C12: wrapText of 'あいうえおかきくけこ、さしすせそ' at width 160 and font size 16
\* with the default prohibition sets returns exactly the two lines
\* 'あいうえおかきくけ' and 'こ、さしすせそ'.
C12_KinsokuSampleLines ==
  (/\ wpc = "done"
   /\ wText = KinsokuSample
   /\ wMaxWidth = KinsokuSampleWidth
   /\ wFontSize = KinsokuSampleFontSize
   /\ wConfig = DEFAULT_CONFIG) =>
    wLines = << <<12354, 12356, 12358, 12360, 12362, 12363, 12365, 12367, 12369>>,
                <<12371, 12289, 12373, 12375, 12377, 12379, 12381>> >>

\* The sample was wrapped with the default sets and its comma is not at a line start.
C12_Witness ==
  /\ wpc = "done"
  /\ wText = KinsokuSample
  /\ wConfig = DEFAULT_CONFIG
  /\ Len(wLines) = 2
  /\ wLines[2][2] = CH.comma

\* The paragraphs of a text: the maximal runs without a newline, by position.
NewlinesAt(text) == {k \in DOMAIN text : text[k] = CH.nl}
ParagraphStarts(text) == {1} \cup {k + 1 : k \in NewlinesAt(text)}
ParagraphFrom(text, start) ==
  LET later == {k \in NewlinesAt(text) : k >= start}
      stop == IF later = {} THEN Len(text) + 1
              ELSE CHOOSE k \in later : \A m \in later : k <= m
  IN SubSeq(text, start, stop - 1)

IsBlank(paragraph) == \A k \in DOMAIN paragraph : IsWhiteSpace(paragraph[k])

\* The lines of the paragraphs that start at or after position start, each
\* paragraph wrapped on its own and a blank one standing as one empty line.
RECURSIVE LinesByParagraph(_, _)
LinesByParagraph(text, start) ==
  IF start > Len(text) + 1 THEN <<>>
  ELSE LET paragraph == ParagraphFrom(text, start)
       IN (IF IsBlank(paragraph) THEN << <<>> >>
           ELSE wrapText(paragraph, wMaxWidth, wFontSize, wConfig))
          \o LinesByParagraph(text, start + Len(paragraph) + 1)

\* C13: wrapText splits its input on newline and emits exactly one empty line,
\* in position, for every paragraph that is empty or only white space; a text
\* made only of k newline characters yields exactly k+1 empty lines.
C13_BlankParagraphs ==
  wpc = "done" =>
    /\ wLines = LinesByParagraph(wText, 1)
    /\ Cardinality({i \in DOMAIN wLines : wLines[i] = <<>>})
         = Cardinality({k \in ParagraphStarts(wText) : IsBlank(ParagraphFrom(wText, k))})
    /\ (\A k \in DOMAIN wText : wText[k] = CH.nl) =>
         wLines = [i \in 1..(Len(wText) + 1) |-> <<>>]

\* A paragraph of one space between two paragraphs of text stands as the empty
\* second line of three.
C13_Witness ==
  /\ wpc = "done"
  /\ Len(wText) >= 4
  /\ wText[2] = CH.nl /\ wText[3] = CH.sp /\ wText[4] = CH.nl
  /\ Len(wLines) >= 2
  /\ wLines[1] # <<>>
  /\ wLines[2] = <<>>

\* ------------------------------------------------------------ error messages

\* The words of the message parts the code builds its messages from.
Words(part) ==
  CASE part = "Quote text is required: " -> <<"Quote", "text", "is", "required:">>
    [] part = "String cannot be empty" -> <<"String", "cannot", "be", "empty">>
    [] part = "Output path cannot be empty" -> <<"Output", "path", "cannot", "be", "empty">>
    [] part = "Output path must have .png extension"
         -> <<"Output", "path", "must", "have", ".png", "extension">>
    [] part = "Failed to write image file: "
         -> <<"Failed", "to", "write", "image", "file:">>
    [] OTHER -> <<part>>

RECURSIVE MessageWords(_)
MessageWords(message) ==
  IF message = <<>> THEN <<>>
  ELSE Words(Head(message)) \o MessageWords(Tail(message))

\* The phrase occurs in the message, word for word and without a gap.
ContainsPhrase(message, phrase) ==
  LET words == MessageWords(message)
  IN \E k \in 0..(Len(words) - Len(phrase)) :
       SubSeq(words, k + 1, k + Len(phrase)) = phrase

EmptyQuoteGiven == quoteData.quote = <<>>

\* C14: generateQuoteImage called with an empty quote rejects with an error
\* whose message contains 'Quote text cannot be empty'.
C14_EmptyQuoteMessage ==
  (QuoteValidated /\ EmptyQuoteGiven) =>
    /\ pc = "rejected"
    /\ ContainsPhrase(error.message, <<"Quote", "text", "cannot", "be", "empty">>)

\* ------------------------------------------------------------ parseWithCommander

\* text.replace(/\\n/g, '\n'): every backslash followed by n becomes a newline,
\* scanning from the left.
RECURSIVE ReplaceEscapedNewlines(_)
ReplaceEscapedNewlines(text) ==
  IF text = <<>> THEN <<>>
  ELSE IF Len(text) >= 2 /\ text[1] = CH.bs /\ text[2] = CH.n
  THEN <<CH.nl>> \o ReplaceEscapedNewlines(SubSeq(text, 3, Len(text)))
  ELSE <<Head(text)>> \o ReplaceEscapedNewlines(Tail(text))

\* String(n) of a non-negative integer.
RECURSIVE ToDigits(_)
ToDigits(n) ==
  IF n < 10 THEN <<CH.zero + n>>
  ELSE ToDigits(n \div 10) \o <<CH.zero + (n % 10)>>

\* `quotto-quote-${timestamp}.png`
DefaultOutputPrefix ==
  <<CH.q, CH.u, CH.o, CH.t, CH.t, CH.o, CH.dash, CH.q, CH.u, CH.o, CH.t, CH.e, CH.dash>>

DefaultOutput(timestamp) == DefaultOutputPrefix \o ToDigits(timestamp) \o DotPng

\* processText that keeps the white space around the text.
processText_NoTrim(text) ==
  IF ~text.defined \/ text.value = <<>> THEN Undefined
  ELSE Some(ReplaceEscapedNewlines(text.value))

\* processText of parseWithCommander.
processText(text) ==
  IF ~text.defined \/ text.value = <<>> THEN Undefined
  ELSE LET processed == Trim(ReplaceEscapedNewlines(text.value))
       IN IF processed = <<>> THEN Undefined ELSE Some(processed)

\* options.output?.trim() || `quotto-quote-${Date.now()}.png`
OutputOrDefault(output, now) ==
  IF output.defined /\ Trim(output.value) # <<>> THEN Trim(output.value)
  ELSE DefaultOutput(now)

\* parse is what commander made of the arguments: "parsed" (options holds the
\* option values) or "rejected" (it raised an error of its own, an unknown
\* option say); a missing --quote is the error exitOverride turns into a
\* QuottoError.
parseWithCommander(parse, options, now) ==
  IF parse = "parsed" /\ ~options.quote.defined
  THEN CliThrew(QuottoError(<<"Quote text is required. Use --quote \"Your quote text\"">>,
                            "EMPTY_QUOTE", {}))
  ELSE IF parse # "parsed"
  THEN CliThrew(QuottoError(<<"(commander)">>, "EMPTY_QUOTE", {}))
  ELSE
    LET quote == processText(options.quote)
        result == [quote |-> quote.value,
                   title |-> processText(options.title),
                   author |-> processText(options.author),
                   output |-> OutputOrDefault(options.output, now)]
    IN IF ~quote.defined
       THEN CliThrew(QuottoError(<<"Quote text cannot be empty">>, "EMPTY_QUOTE", {}))
       ELSE IF ~EndsWith(result.output, DotPng)
       THEN CliThrew(QuottoError(<<"Output file must have .png extension">>,
                                 "INVALID_OUTPUT_PATH", {"providedPath"}))
       ELSE CliReturned(result)

Timestamps == {0, 9, 10, 1234567}
Blank == <<CH.sp, CH.sp>>
PaddedHi == <<CH.sp, CH.sp, CH.H, CH.i, CH.sp, CH.sp>>
EscapedNewlineOnly == <<CH.sp, CH.bs, CH.n>>
TwoEscapedLines == <<CH.a, CH.bs, CH.n, CH.a, CH.sp>>

QuoteOptions == {Undefined, Some(<<>>), Some(Blank), Some(PaddedHi),
                 Some(EscapedNewlineOnly), Some(TwoEscapedLines)}
TextOptions == {Undefined, Some(<<>>), Some(Blank), Some(<<CH.sp, CH.a, CH.sp>>),
                Some(TwoEscapedLines)}
OutputOptions == {Undefined} \cup {Some(path) : path \in Paths}

InitCommander ==
  /\ cOptions \in [quote : QuoteOptions, title : TextOptions,
                   author : {Undefined, Some(Blank), Some(<<CH.a>>)},
                   output : OutputOptions]
  /\ cParse \in {"parsed", "rejected"}
  /\ cNow \in Timestamps
  /\ cResult = CliReturned(NoCliArgs)
  /\ cpc = "ready"
  /\ WrapIdle /\ TruncIdle /\ GenIdle /\ ArgIdle /\ LogIdle /\ StepIdle /\ AppIdle

CallParseWithCommander ==
  /\ cpc = "ready"
  /\ cResult' = parseWithCommander(cParse, cOptions, cNow)
  /\ cpc' = "done"
  /\ UNCHANGED <<cOptions, cParse, cNow, wrapVars, truncVars, genVars, argVars, logVars, stepVars, appVars>>

NextCommander == CallParseWithCommander

SpecCommander == InitCommander /\ [][NextCommander]_vars

IsDigits(str) == \A k \in DOMAIN str : str[k] >= CH.zero /\ str[k] <= CH.zero + 9
Trimmed(str) == str = Core(str)
NonEmptyTrimmedOrUndefined(text) ==
  IF text.defined THEN (text.value # <<>> /\ Trimmed(text.value)) ELSE text = Undefined

\* 'quotto-quote-<digits>.png'
IsDefaultOutputName(str) ==
  /\ Len(str) > Len(DefaultOutputPrefix) + Len(DotPng)
  /\ SubSeq(str, 1, Len(DefaultOutputPrefix)) = DefaultOutputPrefix
  /\ IsDigits(SubSeq(str, Len(DefaultOutputPrefix) + 1, Len(str) - Len(DotPng)))
  /\ EndsWith(str, DotPng)

OutputGiven(output) == output.defined /\ ~IsBlank(output.value)

\* C15: whenever parseWithCommander returns a result, its quote is non-empty and
\* trimmed, its title and author are each undefined or a non-empty trimmed
\* string, and its output is trimmed and ends with '.png'
\* (quotto-quote-<timestamp>.png when no output was given); a blank quote raises
\* EMPTY_QUOTE and an output not ending in '.png' raises INVALID_OUTPUT_PATH
\* instead of returning.
C15_CommanderResult ==
  cpc = "done" =>
    /\ ~cResult.threw =>
         /\ cResult.value.quote # <<>> /\ Trimmed(cResult.value.quote)
         /\ NonEmptyTrimmedOrUndefined(cResult.value.title)
         /\ NonEmptyTrimmedOrUndefined(cResult.value.author)
         /\ Trimmed(cResult.value.output) /\ EndsWith(cResult.value.output, DotPng)
         /\ ~OutputGiven(cOptions.output) =>
              /\ IsDefaultOutputName(cResult.value.output)
              /\ cResult.value.output = DefaultOutput(cNow)
         /\ OutputGiven(cOptions.output) =>
              cResult.value.output = Core(cOptions.output.value)
    /\ (cOptions.quote.defined /\ IsBlank(cOptions.quote.value)) =>
         (cResult.threw /\ cResult.error.code = "EMPTY_QUOTE")
    /\ (OutputGiven(cOptions.output) /\ ~EndsWith(Core(cOptions.output.value), DotPng)) =>
         /\ cResult.threw
         /\ cResult.error.code \in {"EMPTY_QUOTE", "INVALID_OUTPUT_PATH"}
         /\ (cParse = "parsed" /\ cOptions.quote.defined
               /\ ~IsBlank(ReplaceEscapedNewlines(cOptions.quote.value))) =>
              cResult.error.code = "INVALID_OUTPUT_PATH"

\* '  Hi  ' with a padded title and ' a/o.png ' came back as 'Hi', a trimmed
\* title and 'a/o.png'.
C15_Witness ==
  /\ cpc = "done"
  /\ ~cResult.threw
  /\ cOptions.quote = Some(PaddedHi)
  /\ cResult.value.quote = <<CH.H, CH.i>>
  /\ cOptions.title.defined /\ cResult.value.title.defined
  /\ cResult.value.title.value # cOptions.title.value
  /\ cOptions.output.defined
  /\ cResult.value.output # cOptions.output.value
  /\ cResult.value.output = <<CH.a, CH.slash, CH.o>> \o DotPng

\* ------------------------------------------------------------ parseCliArgs

FlagQuote == <<CH.dash, CH.dash, CH.q, CH.u, CH.o, CH.t, CH.e>>
FlagTitle == <<CH.dash, CH.dash, CH.t, CH.i, CH.t, CH.l, CH.e>>
FlagAuthor == <<CH.dash, CH.dash, CH.a, CH.u, CH.t, CH.h, CH.o, CH.r>>
FlagOutput == <<CH.dash, CH.dash, CH.o, CH.u, CH.t, CH.p, CH.u, CH.t>>

\* validateCliFlag that takes any value that is there.
validateCliFlag_Unchecked(flag, value) ==
  IF ~value.defined
  THEN [success |-> FALSE, data |-> <<>>, error |-> <<"Value for ", flag, " is missing">>]
  ELSE [success |-> TRUE, data |-> ReplaceEscapedNewlines(value.value), error |-> <<>>]

\* flag is the flag's name, for the message.
validateCliFlag(flag, value) ==
  IF ~value.defined
  THEN [success |-> FALSE, data |-> <<>>, error |-> <<"Value for ", flag, " is missing">>]
  ELSE LET validation == createNonEmptyString(ReplaceEscapedNewlines(value.value))
       IN IF ~validation.success
          THEN [success |-> FALSE, data |-> <<>>,
                error |-> <<flag, " cannot be empty: ", validation.error>>]
          ELSE [success |-> TRUE, data |-> validation.data, error |-> <<>>]

NoMutableCliArgs ==
  [quote |-> Undefined, title |-> Undefined, author |-> Undefined, output |-> Undefined]

\* A string that is falsy ('' or undefined).
Falsy(text) == ~text.defined \/ text.value = <<>>

\* The loop over (flag, value) pairs from index i (1-based) on; an unpaired last
\* flag has an undefined value.
RECURSIVE ParseArgsLoop(_, _, _)
ParseArgsLoop(args, i, result) ==
  IF i > Len(args) THEN [threw |-> FALSE, result |-> result, error |-> NoError]
  ELSE
    LET flag == args[i]
        value == IF i + 1 <= Len(args) THEN Some(args[i + 1]) ELSE Undefined
        processed == Trim(ReplaceEscapedNewlines(value.value))
        validation == validateCliFlag("--quote", value)
    IN IF flag = FlagQuote
       THEN IF ~validation.success
            THEN [threw |-> TRUE, result |-> result,
                  error |-> QuottoError(validation.error, "EMPTY_QUOTE", {"flag", "value"})]
            ELSE ParseArgsLoop(args, i + 2, [result EXCEPT !.quote = Some(validation.data)])
       ELSE IF flag = FlagTitle /\ value.defined /\ Len(processed) > 0
       THEN ParseArgsLoop(args, i + 2, [result EXCEPT !.title = Some(processed)])
       ELSE IF flag = FlagAuthor /\ value.defined /\ Len(processed) > 0
       THEN ParseArgsLoop(args, i + 2, [result EXCEPT !.author = Some(processed)])
       ELSE IF flag = FlagOutput /\ value.defined /\ Len(Trim(value.value)) > 0
       THEN ParseArgsLoop(args, i + 2, [result EXCEPT !.output = Some(Trim(value.value))])
       ELSE ParseArgsLoop(args, i + 2, result)

parseCliArgs(args, now) ==
  LET loop == ParseArgsLoop(args, 1, NoMutableCliArgs)
  IN IF loop.threw THEN CliThrew(loop.error)
     ELSE IF Falsy(loop.result.quote)
     THEN CliThrew(QuottoError(<<"Quote text is required">>, "EMPTY_QUOTE", {}))
     ELSE CliReturned([quote |-> loop.result.quote.value,
                       title |-> loop.result.title,
                       author |-> loop.result.author,
                       output |-> IF Falsy(loop.result.output) THEN DefaultOutput(now)
                                  ELSE loop.result.output.value])

MaxArgs == 4

PaddedPng == <<CH.sp, CH.a, CH.slash, CH.o>> \o DotPng \o <<CH.sp>>
ArgTokens == {FlagQuote, FlagTitle, FlagAuthor, FlagOutput,
              <<>>, Blank, PaddedHi, EscapedNewlineOnly, PaddedPng}
ArgLists == UNION {[1..k -> ArgTokens] : k \in 0..MaxArgs}

InitArgs ==
  /\ aArgs \in ArgLists
  /\ aNow \in {9, 1234567}
  /\ aResult = CliReturned(NoCliArgs)
  /\ apc = "ready"
  /\ WrapIdle /\ TruncIdle /\ GenIdle /\ CmdIdle /\ LogIdle /\ StepIdle /\ AppIdle

CallParseCliArgs ==
  /\ apc = "ready"
  /\ aResult' = parseCliArgs(aArgs, aNow)
  /\ apc' = "done"
  /\ UNCHANGED <<aArgs, aNow, wrapVars, truncVars, genVars, cmdVars, logVars, stepVars, appVars>>

NextArgs == CallParseCliArgs

SpecArgs == InitArgs /\ [][NextArgs]_vars

\* The positions the loop reads a flag at whose flag is --output and whose
\* value is there and not blank.
OutputPositions(args) ==
  {k \in DOMAIN args : /\ k % 2 = 1 /\ args[k] = FlagOutput
                       /\ k + 1 <= Len(args) /\ ~IsBlank(args[k + 1])}

\* C16: for every argument list that supplies no --quote flag parseCliArgs throws
\* a QuottoError of kind EMPTY_QUOTE with message 'Quote text is required', and
\* every result it returns has a quote that is non-empty after trimming and a
\* non-empty output, quotto-quote-<digits>.png when none was given.
C16_QuoteRequired ==
  apc = "done" =>
    /\ (\A k \in DOMAIN aArgs : aArgs[k] # FlagQuote) =>
         /\ aResult.threw
         /\ aResult.error.name = "QuottoError"
         /\ aResult.error.code = "EMPTY_QUOTE"
         /\ aResult.error.message = <<"Quote text is required">>
    /\ ~aResult.threw =>
         /\ Core(aResult.value.quote) # <<>>
         /\ aResult.value.output # <<>>
         /\ OutputPositions(aArgs) = {} =>
              /\ IsDefaultOutputName(aResult.value.output)
              /\ aResult.value.output = DefaultOutput(aNow)
         /\ \A k \in OutputPositions(aArgs) :
              (\A m \in OutputPositions(aArgs) : m <= k) =>
                aResult.value.output = Core(aArgs[k + 1])

\* --quote '  Hi  ' after another pair, no output given: 'Hi' and the default name.
C16_Witness ==
  /\ apc = "done"
  /\ ~aResult.threw
  /\ Len(aArgs) = 4
  /\ aArgs[3] = FlagQuote
  /\ aResult.value.quote = <<CH.H, CH.i>>
  /\ aResult.value.output = DefaultOutput(aNow)

\* A list without --quote was refused.
C16_WitnessNoQuote ==
  /\ apc = "done"
  /\ Len(aArgs) = 4
  /\ \A k \in DOMAIN aArgs : aArgs[k] # FlagQuote
  /\ aResult.threw

\* ------------------------------------------------------------ ErrorHandler and handleAsyncError

\* The static instance after the call (0 is the unset static field) and the
\* number of handlers constructed so far; the call returns the instance.
getInstance(current, made) ==
  IF current = 0 THEN [instance |-> made + 1, made |-> made + 1]
  ELSE [instance |-> current, made |-> made]

ErrorContext(operation, timestamp, args) ==
  [operation |-> operation, timestamp |-> timestamp, args |-> args]

\* The entry put in front of the log.
handleError_Prepend(log, err, context) == <<[error |-> err, context |-> context]>> \o log

\* this.errorLog.push({ error, context })
handleError(log, err, context) == Append(log, [error |-> err, context |-> context])

\* this.errorLog = []
clearErrorLog(log) == <<>>

getErrorLog(log) == log

\* The catch block logging whatever Error was thrown.
ShouldLog_AnyError(thrown) == thrown.isError

\* error instanceof Error && 'code' in error
ShouldLog(thrown) == thrown.isError /\ thrown.hasCode

MaxLogSteps == 4

LoggedErrors ==
  {ErrorValue("QuottoError", TRUE, TRUE, "EMPTY_QUOTE"),
   ErrorValue("QuottoError", TRUE, TRUE, "FILE_WRITE_FAILED")}
Operations == {"test-operation", "generate"}

\* What a wrapped function may throw: a QuottoError, a plain Error, an Error of
\* the runtime that has a code (ENOENT), an object that is not an Error and has
\* a code, a string.
ThrownValues ==
  {ErrorValue("QuottoError", TRUE, TRUE, "EMPTY_QUOTE"),
   ErrorValue("Error", TRUE, FALSE, ""),
   ErrorValue("SystemError", TRUE, TRUE, "ENOENT"),
   ErrorValue("object", FALSE, TRUE, "E"),
   ErrorValue("string", FALSE, FALSE, "")}
Outcomes ==
  {[resolves |-> TRUE, value |-> v, thrown |-> NoValue] : v \in {10, 42}}
    \cup {[resolves |-> FALSE, value |-> 0, thrown |-> t] : t \in ThrownValues}

HistoryEntry(op, err, context) == [op |-> op, error |-> err, context |-> context]
NoContext == ErrorContext("", 0, "undefined")

InitLog ==
  /\ LogIdle
  /\ WrapIdle /\ TruncIdle /\ GenIdle /\ CmdIdle /\ ArgIdle /\ StepIdle /\ AppIdle

\* ErrorHandler.getInstance()
GetInstance ==
  /\ steps < MaxLogSteps
  /\ LET got == getInstance(instance, instancesMade)
     IN /\ instance' = got.instance
        /\ instancesMade' = got.made
        /\ handles' = handles \cup {got.instance}
  /\ steps' = steps + 1
  /\ UNCHANGED <<errorLog, history, wrapped, wrapVars, truncVars, genVars, cmdVars, argVars, stepVars, appVars>>

\* errorHandler.handleError(error, context) on a handler obtained before
HandleError ==
  /\ steps < MaxLogSteps
  /\ instance # 0
  /\ \E err \in LoggedErrors :
       LET context == ErrorContext("manual", steps, "undefined")
       IN /\ errorLog' = handleError(errorLog, err, context)
          /\ history' = Append(history, HistoryEntry("handleError", err, context))
  /\ steps' = steps + 1
  /\ UNCHANGED <<instance, instancesMade, handles, wrapped, wrapVars, truncVars, genVars,
                 cmdVars, argVars, stepVars, appVars>>

\* errorHandler.clearErrorLog()
ClearErrorLog ==
  /\ steps < MaxLogSteps
  /\ instance # 0
  /\ errorLog' = clearErrorLog(errorLog)
  /\ history' = Append(history, HistoryEntry("clearErrorLog", NoValue, NoContext))
  /\ steps' = steps + 1
  /\ UNCHANGED <<instance, instancesMade, handles, wrapped, wrapVars, truncVars, genVars,
                 cmdVars, argVars, stepVars, appVars>>

\* A function wrapped by handleAsyncError(fn, operation) is called: fn starts,
\* and will resolve or throw.  The resolving functions are called with an
\* argument, the throwing ones without; the time is the step count.
CallWrapped ==
  /\ steps < MaxLogSteps
  /\ wrapped.state # "pending"
  /\ \E outcome \in Outcomes, operation \in Operations :
       wrapped' = [NoWrappedCall EXCEPT !.state = "pending", !.outcome = outcome,
                                        !.operation = operation,
                                        !.argCount = IF outcome.resolves THEN 1 ELSE 0,
                                        !.timestamp = steps]
  /\ steps' = steps + 1
  /\ UNCHANGED <<instance, instancesMade, handles, errorLog, history, wrapVars,
                 truncVars, genVars, cmdVars, argVars, stepVars, appVars>>

\* The await settles: the value is returned, or the catch block gets the
\* handler, logs when the thrown value is an Error with a code, and rethrows.
SettleWrapped ==
  /\ wrapped.state = "pending"
  /\ LET thrown == wrapped.outcome.thrown
         got == getInstance(instance, instancesMade)
         context == ErrorContext(wrapped.operation, wrapped.timestamp,
                                 IF wrapped.argCount > 0 THEN "args" ELSE "undefined")
         log == IF ShouldLog(thrown) THEN handleError(errorLog, thrown, context)
                ELSE errorLog
     IN IF wrapped.outcome.resolves
        THEN /\ wrapped' = [wrapped EXCEPT !.state = "settled", !.logBefore = errorLog,
                                           !.logAfter = errorLog,
                                           !.result = wrapped.outcome]
             /\ UNCHANGED <<instance, instancesMade, handles, errorLog, history>>
        ELSE /\ instance' = got.instance
             /\ instancesMade' = got.made
             /\ handles' = handles \cup {got.instance}
             /\ errorLog' = log
             /\ history' = IF ShouldLog(thrown)
                           THEN Append(history, HistoryEntry("handleError", thrown, context))
                           ELSE history
             /\ wrapped' = [wrapped EXCEPT !.state = "settled", !.logBefore = errorLog,
                                           !.logAfter = log,
                                           !.result = wrapped.outcome]
  /\ UNCHANGED <<steps, wrapVars, truncVars, genVars, cmdVars, argVars, stepVars, appVars>>

NextLog ==
  \/ GetInstance
  \/ HandleError
  \/ ClearErrorLog
  \/ CallWrapped
  \/ SettleWrapped

SpecLog == InitLog /\ [][NextLog]_vars

\* The (error, context) pairs of the handleError calls made after the last
\* clearErrorLog call, in call order.
ClearsAt(calls) == {k \in DOMAIN calls : calls[k].op = "clearErrorLog"}
LastClear(calls) ==
  IF ClearsAt(calls) = {} THEN 0
  ELSE CHOOSE k \in ClearsAt(calls) : \A m \in ClearsAt(calls) : m <= k
PairsSinceClear(calls) ==
  [i \in 1..(Len(calls) - LastClear(calls)) |->
     [error |-> calls[LastClear(calls) + i].error,
      context |-> calls[LastClear(calls) + i].context]]

\* C17: ErrorHandler.getInstance always returns the same instance, and after any
\* sequence of handleError and clearErrorLog calls getErrorLog holds exactly the
\* (error, context) pairs passed to handleError since the most recent
\* clearErrorLog, in call order.
C17_SingletonAndLog ==
  /\ Cardinality(handles) <= 1
  /\ instancesMade <= 1
  /\ instance # 0 => handles = {instance}
  /\ getErrorLog(errorLog) = PairsSinceClear(history)

\* Two different errors were handled, one before a clearErrorLog and one after.
C17_Witness ==
  /\ Len(history) = 3
  /\ history[1].op = "handleError"
  /\ history[2].op = "clearErrorLog"
  /\ history[3].op = "handleError"
  /\ history[3].error # history[1].error
  /\ Len(errorLog) = 1
  /\ errorLog[1].error = history[3].error

\* C18: a function wrapped by handleAsyncError resolves to the same value as
\* the original and leaves the error log unchanged when the original succeeds;
\* when the original throws, the wrapper rejects with that same error, and
\* appends exactly one log entry carrying the given operation name if and only
\* if the thrown value is an Error that has a code property.
C18_WrapperTransparent ==
  wrapped.state = "settled" =>
    /\ wrapped.result = wrapped.outcome
    /\ wrapped.outcome.resolves => wrapped.logAfter = wrapped.logBefore
    /\ ~wrapped.outcome.resolves =>
         IF wrapped.outcome.thrown.isError /\ wrapped.outcome.thrown.hasCode
         THEN /\ Len(wrapped.logAfter) = Len(wrapped.logBefore) + 1
              /\ SubSeq(wrapped.logAfter, 1, Len(wrapped.logBefore)) = wrapped.logBefore
              /\ wrapped.logAfter[Len(wrapped.logAfter)].error = wrapped.outcome.thrown
              /\ wrapped.logAfter[Len(wrapped.logAfter)].context.operation
                   = wrapped.operation
         ELSE wrapped.logAfter = wrapped.logBefore

\* A wrapped function threw an Error of the runtime that has a code, with an
\* entry already in the log, and the log grew by one.
C18_Witness ==
  /\ wrapped.state = "settled"
  /\ wrapped.outcome.thrown.kind = "SystemError"
  /\ Len(wrapped.logBefore) = 1
  /\ Len(wrapped.logAfter) = 2
  /\ wrapped.logAfter[2].context.operation = wrapped.operation

\* ------------------------------------------------------------ the character loop of wrapText, step by step

\* Paragraphs the character loop runs on: no newline, not blank.  A space is
\* to the loop what any other narrow character is, and 'a' stands for both.
StepParagraphs ==
  {text \in WrapTexts : /\ text # <<>>
                        /\ {CH.nl, CH.sp} \cap {text[k] : k \in DOMAIN text} = {}}

\* The widths of wrapText's calls and one below every character's width.
StepWidths == WrapWidths \cup {4}

InitSteps ==
  /\ sChars \in StepParagraphs
  /\ sMaxWidth \in StepWidths
  /\ sFontSize \in WrapFontSizes
  /\ sConfig \in WrapConfigs
  /\ sIndex = 0
  /\ sState = LoopStart
  /\ sLast = NoStep
  /\ WrapIdle /\ TruncIdle /\ GenIdle /\ CmdIdle /\ ArgIdle /\ LogIdle /\ AppIdle

\* The else branch: the character joins the current line.
StepAppend ==
  /\ sIndex < Len(sChars)
  /\ ~BreakNeeded(sState, sChars[sIndex + 1], sMaxWidth, sFontSize)
  /\ sState' = WrapChar(sState, sChars[sIndex + 1], sMaxWidth, sFontSize, sConfig)
  /\ sLast' = [broke |-> FALSE, before |-> sState, char |-> sChars[sIndex + 1]]
  /\ sIndex' = sIndex + 1
  /\ UNCHANGED <<sChars, sMaxWidth, sFontSize, sConfig, wrapVars, truncVars, genVars,
                 cmdVars, argVars, logVars, appVars>>

\* A break that starts the next line empty and takes the character up again.
StepBreak_Reprocess ==
  /\ sIndex < Len(sChars)
  /\ BreakNeeded(sState, sChars[sIndex + 1], sMaxWidth, sFontSize)
  /\ sState' = [currentLine |-> <<>>, currentWidth |-> 0,
                allLines |-> Append(sState.allLines, sState.currentLine)]
  /\ sLast' = [broke |-> TRUE, before |-> sState, char |-> sChars[sIndex + 1]]
  /\ sIndex' = sIndex
  /\ UNCHANGED <<sChars, sMaxWidth, sFontSize, sConfig, wrapVars, truncVars, genVars,
                 cmdVars, argVars, logVars, appVars>>

\* The break branch.
StepBreak ==
  /\ sIndex < Len(sChars)
  /\ BreakNeeded(sState, sChars[sIndex + 1], sMaxWidth, sFontSize)
  /\ sState' = BreakLine(sState, sChars[sIndex + 1], sFontSize, sConfig)
  /\ sLast' = [broke |-> TRUE, before |-> sState, char |-> sChars[sIndex + 1]]
  /\ sIndex' = sIndex + 1
  /\ UNCHANGED <<sChars, sMaxWidth, sFontSize, sConfig, wrapVars, truncVars, genVars,
                 cmdVars, argVars, logVars, appVars>>

\* After the loop: the line in progress is pushed.
StepFinish ==
  /\ sIndex = Len(sChars)
  /\ sState' = [currentLine |-> <<>>, currentWidth |-> sState.currentWidth,
                allLines |-> IF sState.currentLine # <<>>
                             THEN Append(sState.allLines, sState.currentLine)
                             ELSE sState.allLines]
  /\ sLast' = NoStep
  /\ sIndex' = sIndex + 1
  /\ UNCHANGED <<sChars, sMaxWidth, sFontSize, sConfig, wrapVars, truncVars, genVars,
                 cmdVars, argVars, logVars, appVars>>

NextSteps == StepAppend \/ StepBreak \/ StepFinish

SpecSteps == InitSteps /\ [][NextSteps]_vars

\* The loop is a for loop over an array: an iteration that can run does run.
SpecStepsFair == InitSteps /\ [][NextSteps]_vars /\ WF_vars(NextSteps)

\* The loop run step by step gives the lines wrapText gives.
StepsAgreeWithWrapText ==
  sIndex = Len(sChars) + 1 =>
    sState.allLines = wrapText(sChars, sMaxWidth, sFontSize, sConfig)

\* How many trailing characters of line a break before char takes away: the
\* last one if it is line-end-prohibited, then one more if char is
\* line-start-prohibited and the line still has a character.
CarriedCount(line, char, cfg) ==
  LET detached == IF line[Len(line)] \in cfg.text.kinsoku.lineEndProhibited THEN 1 ELSE 0
      avoided == IF char \in cfg.text.kinsoku.lineStartProhibited /\ Len(line) - detached > 0
                 THEN 1 ELSE 0
  IN detached + avoided

\* C19: at a break, line-end detachment is applied before line-start avoidance:
\* a line-end-prohibited last character is carried to the next line, and for a
\* line-start-prohibited incoming character one further trailing character is
\* carried while the line still has one, so a break can remove two trailing
\* characters; the next line is the carried text followed by the incoming
\* character.
C19_BreakCarries ==
  sLast.broke =>
    LET line == sLast.before.currentLine
        carried == CarriedCount(line, sLast.char, sConfig)
        kept == SubSeq(line, 1, Len(line) - carried)
    IN /\ carried <= 2
       /\ sState.currentLine
            = SubSeq(line, Len(line) - carried + 1, Len(line)) \o <<sLast.char>>
       /\ sState.allLines = IF kept # <<>> THEN Append(sLast.before.allLines, kept)
                            ELSE sLast.before.allLines
       /\ line[Len(line)] \in sConfig.text.kinsoku.lineEndProhibited =>
            /\ carried >= 1
            /\ sState.currentLine[Len(sState.currentLine) - 1] = line[Len(line)]

\* A break before a line-start-prohibited character on a line of three that
\* ends with a line-end-prohibited one: two characters were carried and one
\* was left as the emitted line.
C19_Witness ==
  /\ sLast.broke
  /\ Len(sLast.before.currentLine) = 3
  /\ sLast.before.currentLine[3] \in sConfig.text.kinsoku.lineEndProhibited
  /\ sLast.char \in sConfig.text.kinsoku.lineStartProhibited
  /\ Len(sState.currentLine) = 3
  /\ Len(sState.allLines) = Len(sLast.before.allLines) + 1

\* ------------------------------------------------------------ more properties of truncateTextToMaxLines

Truncates == tpc \in {"truncated", "again"} /\ Len(tLines) > tMaxLines

\* C20: when truncateTextToMaxLines truncates, the first maxLines-1 lines are
\* kept verbatim and the line at index maxLines-1 is replaced: if it is longer
\* than 10 characters its last 3 characters are replaced by '...' (same
\* length), otherwise '...' is appended (length grows by 3); all later lines
\* are discarded.
C20_TruncationShape ==
  Truncates =>
    /\ tMaxLines >= 1 => ~tResult.threw
    /\ ~tResult.threw =>
         LET last == tLines[tMaxLines]
             marked == tResult.value[tMaxLines]
         IN /\ Len(tResult.value) = tMaxLines
            /\ \A i \in 1..(tMaxLines - 1) : tResult.value[i] = tLines[i]
            /\ IF Len(last) > 10
               THEN /\ Len(marked) = Len(last)
                    /\ SubSeq(marked, 1, Len(last) - 3) = SubSeq(last, 1, Len(last) - 3)
                    /\ SubSeq(marked, Len(last) - 2, Len(last)) = <<CH.dot, CH.dot, CH.dot>>
               ELSE /\ Len(marked) = Len(last) + 3
                    /\ marked = last \o <<CH.dot, CH.dot, CH.dot>>

\* Three lines cut to two, the second of 11 characters: it keeps its length and
\* ends with the ellipsis, and the first line is as it was.
C20_Witness ==
  /\ Truncates
  /\ ~tResult.threw
  /\ tMaxLines = 2 /\ Len(tLines) = 3
  /\ Len(tLines[2]) = 11
  /\ Len(tResult.value[2]) = 11
  /\ tResult.value[2] # tLines[2]
  /\ tResult.value[1] = tLines[1]

\* ------------------------------------------------------------ more properties of the layout

\* The number of lines of a section after truncation: the wrapped lines, at
\* most cap of them.
LineCount(text, fontSize, cap) ==
  Min(Len(wrapText(text, getMaxTextWidth(config), fontSize, config)), cap)

\* C21: calculateRequiredHeight equals startY + quoteLineCount x (quoteFontSize
\* + lineGap.quote) + sectionGap.afterQuote + (if a title is present:
\* titleLineCount x (titleFontSize + lineGap.title) + sectionGap.afterTitle)
\* + (if an author is present: authorLineCount x (authorFontSize +
\* lineGap.author)) + footerHeight, the line counts being those after
\* truncation; the after-quote gap is added even when neither title nor
\* author is present.
C21_RequiredHeightSum ==
  HeightDerived =>
    requiredHeight =
      config.spacing.startY
      + LineCount(quoteData.quote, fontSizes.quoteFontSize, config.text.maxLines.quote)
          * (fontSizes.quoteFontSize + config.spacing.lineGap.quote)
      + config.spacing.sectionGap.afterQuote
      + (IF quoteData.title # <<>>
         THEN LineCount(quoteData.title, fontSizes.titleFontSize, config.text.maxLines.title)
                * (fontSizes.titleFontSize + config.spacing.lineGap.title)
              + config.spacing.sectionGap.afterTitle
         ELSE 0)
      + (IF quoteData.author # <<>>
         THEN LineCount(quoteData.author, fontSizes.authorFontSize,
                        config.text.maxLines.author)
                * (fontSizes.authorFontSize + config.spacing.lineGap.author)
         ELSE 0)
      + config.canvas.footerHeight

\* A quote alone, cut to the two lines allowed: the height has the two lines,
\* the gap after the quote and the footer.
C21_Witness ==
  /\ HeightDerived
  /\ quoteData.title = <<>> /\ quoteData.author = <<>>
  /\ Len(wrapText(quoteData.quote, getMaxTextWidth(config), fontSizes.quoteFontSize,
                  config)) > config.text.maxLines.quote
  /\ requiredHeight = config.spacing.startY
                      + config.text.maxLines.quote
                          * (fontSizes.quoteFontSize + config.spacing.lineGap.quote)
                      + config.spacing.sectionGap.afterQuote
                      + config.canvas.footerHeight

\* ------------------------------------------------------------ termination of the character loop

LoopDone == sIndex = Len(sChars) + 1

\* The character is wider than the maximum width all by itself.
OverWidth(char) == getCharWidth(char) * sFontSize > 2 * sMaxWidth

GenerateOutcome(args, mkdirFails, writeFails) ==
  LET data == [quote |-> args.quote, title |-> args.title.value,
               author |-> args.author.value]
      quoteValid == validateQuoteData(data)
      pathValid == validateOutputPath(args.output)
  IN IF ~quoteValid.success
     THEN CliThrew(QuottoError(quoteValid.error, "EMPTY_QUOTE", {"quoteData"}))
     ELSE IF ~pathValid.success
     THEN CliThrew(QuottoError(<<pathValid.error>>, "INVALID_OUTPUT_PATH", {"outputPath"}))
     ELSE IF mkdirFails
     THEN CliThrew([name |-> "Error", code |-> "", message |-> <<"mkdir">>, context |-> {}])
     ELSE IF writeFails
     THEN CliThrew(QuottoError(<<"Failed to write image file: ", "(cause)">>,
                               "FILE_WRITE_FAILED", {"outputPath", "error"}))
     ELSE CliReturned(args)

\* The catch block: the message shown for a thrown value.
CaughtMessage(err) ==
  IF err.name = "QuottoError" THEN Message(err.message, <<>>)
  ELSE IF err.name \in {"Error", "TypeError"} THEN Message(err.message, <<>>)
  ELSE Message(<<"An unknown error occurred">>, <<>>)

\* The catch block: the error code kept, that of a QuottoError only.
CaughtCode(err, code) == IF err.name = "QuottoError" THEN err.code ELSE code

AppQuoteOptions == QuoteOptions
AppTitleOptions == {Undefined, Some(TwoEscapedLines)}
AppAuthorOptions == {Undefined, Some(<<CH.a>>)}
AppTimestamps == {0, 1234567}

\* The component is mounted with its initial state; the effect has not run.
InitApp ==
  /\ appOptions \in [quote : AppQuoteOptions, title : AppTitleOptions,
                     author : AppAuthorOptions, output : OutputOptions]
  /\ appParse \in {"parsed", "rejected"}
  /\ appNow \in AppTimestamps
  /\ appMkdirFails \in BOOLEAN
  /\ appWriteFails \in BOOLEAN
  /\ appPc = "mounted"
  /\ parsedArgs = NoCliArgs
  /\ status = "parsing"
  /\ appMessage = Message(<<>>, <<>>)
  /\ shownOutputPath = <<>>
  /\ errorCode = ""
  /\ statusTrace = <<>>
  /\ WrapIdle /\ TruncIdle /\ GenIdle /\ CmdIdle /\ ArgIdle /\ LogIdle /\ StepIdle

\* processArgs up to its await, parseWithCommander returning: lines 24-33.
StartGenerating ==
  /\ appPc = "mounted"
  /\ LET parsed == parseWithCommander(appParse, appOptions, appNow)
     IN /\ ~parsed.threw
        /\ parsedArgs' = parsed.value
        /\ shownOutputPath' = parsed.value.output
  /\ status' = "generating"
  /\ appMessage' = Message(<<"Generating quote image...">>, <<>>)
  /\ statusTrace' = statusTrace \o <<"parsing", "generating">>
  /\ appPc' = "generating"
  /\ UNCHANGED <<appOptions, appParse, appNow, appMkdirFails, appWriteFails, errorCode,
                 wrapVars, truncVars, genVars, cmdVars, argVars, logVars, stepVars>>

\* processArgs when parseWithCommander throws: lines 24-27, then the catch.
ParseFails ==
  /\ appPc = "mounted"
  /\ LET parsed == parseWithCommander(appParse, appOptions, appNow)
     IN /\ parsed.threw
        /\ appMessage' = CaughtMessage(parsed.error)
        /\ errorCode' = CaughtCode(parsed.error, errorCode)
  /\ status' = "error"
  /\ statusTrace' = statusTrace \o <<"parsing", "error">>
  /\ appPc' = "done"
  /\ UNCHANGED <<appOptions, appParse, appNow, appMkdirFails, appWriteFails, parsedArgs,
                 shownOutputPath, wrapVars, truncVars, genVars, cmdVars, argVars, logVars,
                 stepVars>>

\* processArgs going on to the success status without waiting for the promise.
GenerateResolves_NoAwait ==
  /\ appPc = "generating"
  /\ status' = "success"
  /\ appMessage' = Message(<<"Image generated successfully: ">>, parsedArgs.output)
  /\ statusTrace' = Append(statusTrace, "success")
  /\ appPc' = "done"
  /\ UNCHANGED <<appOptions, appParse, appNow, appMkdirFails, appWriteFails, parsedArgs,
                 shownOutputPath, errorCode, wrapVars, truncVars, genVars, cmdVars,
                 argVars, logVars, stepVars>>

\* The awaited generateQuoteImage resolves: lines 42-43.
GenerateResolves ==
  /\ appPc = "generating"
  /\ ~GenerateOutcome(parsedArgs, appMkdirFails, appWriteFails).threw
  /\ status' = "success"
  /\ appMessage' = Message(<<"Image generated successfully: ">>, parsedArgs.output)
  /\ statusTrace' = Append(statusTrace, "success")
  /\ appPc' = "done"
  /\ UNCHANGED <<appOptions, appParse, appNow, appMkdirFails, appWriteFails, parsedArgs,
                 shownOutputPath, errorCode, wrapVars, truncVars, genVars, cmdVars,
                 argVars, logVars, stepVars>>

\* The awaited generateQuoteImage rejects: the catch, lines 44-54.
GenerateRejects ==
  /\ appPc = "generating"
  /\ LET outcome == GenerateOutcome(parsedArgs, appMkdirFails, appWriteFails)
     IN /\ outcome.threw
        /\ appMessage' = CaughtMessage(outcome.error)
        /\ errorCode' = CaughtCode(outcome.error, errorCode)
  /\ status' = "error"
  /\ statusTrace' = Append(statusTrace, "error")
  /\ appPc' = "done"
  /\ UNCHANGED <<appOptions, appParse, appNow, appMkdirFails, appWriteFails, parsedArgs,
                 shownOutputPath, wrapVars, truncVars, genVars, cmdVars, argVars, logVars,
                 stepVars>>

NextApp == StartGenerating \/ ParseFails \/ GenerateResolves \/ GenerateRejects

SpecApp == InitApp /\ [][NextApp]_vars

\* generateQuoteImage has been called.
GenerateStarted == appPc = "generating" \/ (appPc = "done" /\ parsedArgs # NoCliArgs)

StatusSteps ==
  {<<"parsing", "generating">>, <<"generating", "success">>,
   <<"parsing", "error">>, <<"generating", "error">>}

\* C23: the App status only follows parsing -> generating -> success, or
\* parsing -> error, or generating -> error; generateQuoteImage is started only
\* after parseWithCommander has returned, success is set only after
\* generateQuoteImage has resolved, and once success or error is set the status
\* does not change again.
C23_StatusOrder ==
  /\ [][status' # status => <<status, status'>> \in StatusSteps]_vars
  /\ [][(status = "success" \/ status = "error") => statusTrace' = statusTrace]_vars
  /\ [](statusTrace \in {<<>>, <<"parsing", "generating">>, <<"parsing", "error">>,
                         <<"parsing", "generating", "success">>,
                         <<"parsing", "generating", "error">>})
  /\ [](GenerateStarted =>
          parseWithCommander(appParse, appOptions, appNow) = CliReturned(parsedArgs))
  /\ [](status = "success" =>
          /\ GenerateStarted
          /\ ~GenerateOutcome(parsedArgs, appMkdirFails, appWriteFails).threw)

\* A mount that went through all three statuses, the image written.
C23_Witness ==
  /\ status = "success"
  /\ statusTrace = <<"parsing", "generating", "success">>
  /\ shownOutputPath = parsedArgs.output

\* ------------------------------------------------------------ the errors of generateQuoteImage

\* enum ErrorCode.
ErrorCode ==
  {"EMPTY_QUOTE", "INVALID_OUTPUT_PATH", "FONT_SIZE_CALCULATION_FAILED",
   "SVG_GENERATION_FAILED", "FILE_WRITE_FAILED", "INVALID_CONFIG"}

\* C24: every error with which generateQuoteImage rejects is a QuottoError
\* carrying an ErrorCode, a message and a context, failures while creating the
\* output directory included.
C24_EveryRejectionQuottoError ==
  pc = "rejected" =>
    /\ error.name = "QuottoError"
    /\ error.code \in ErrorCode
    /\ error.message # <<>>
    /\ error.context # {}

\* ------------------------------------------------------------ the width of the ellipsis line

\* The lines wrapText gave for the text were cut at cap, the line replaced
\* fitted the maximum text width, and placed are the lines after the cut.
FittingLineReplaced(text, fontSize, cap, placed) ==
  LET lines == wrapText(text, getMaxTextWidth(config), fontSize, config)
  IN /\ cap >= 1
     /\ Len(lines) > cap
     /\ Len(placed) = cap
     /\ LineWidth2(lines[cap], fontSize) <= 2 * getMaxTextWidth(config)

\* C25: when truncateTextToMaxLines replaces a line by its ellipsis-suffixed
\* variant and the replaced line's estimated width was at most the maximum text
\* width, the width of the ellipsis-suffixed line is at most the maximum text
\* width too.
C25_EllipsisLineFits ==
  (layout # NoLayout
     /\ FittingLineReplaced(quoteData.quote, fontSizes.quoteFontSize,
                            config.text.maxLines.quote, layout.quoteLines)) =>
    LineWidth2(layout.quoteLines[config.text.maxLines.quote], fontSizes.quoteFontSize)
      <= 2 * getMaxTextWidth(config)

\* ------------------------------------------------------------ the characters of the lines

\* The lines joined, in order.
RECURSIVE Concat(_)
Concat(lines) == IF lines = <<>> THEN <<>> ELSE Head(lines) \o Concat(Tail(lines))

\* C26: wrapText neither loses, duplicates nor reorders characters: the lines
\* it returns are those of its paragraphs in order, and for every paragraph that
\* is not whitespace-only the concatenation of the lines emitted for it equals
\* the paragraph and none of those lines is empty.
C26_CharactersPreserved ==
  wpc = "done" =>
    /\ wLines = LinesByParagraph(wText, 1)
    /\ \A k \in ParagraphStarts(wText) :
         LET paragraph == ParagraphFrom(wText, k)
             lines == wrapText(paragraph, wMaxWidth, wFontSize, wConfig)
         IN ~IsBlank(paragraph) =>
              /\ Concat(lines) = paragraph
              /\ \A i \in DOMAIN lines : lines[i] # <<>>

\* A text of several paragraphs, one of them broken with a character carried
\* over the break.
C26_Witness ==
  /\ wpc = "done"
  /\ ~OneParagraph(wText)
  /\ \E k \in ParagraphStarts(wText) :
       LET paragraph == ParagraphFrom(wText, k)
           lines == wrapText(paragraph, wMaxWidth, wFontSize, wConfig)
       IN /\ Len(lines) >= 2
          /\ Len(lines[2]) >= 2
          /\ Concat(lines) = paragraph

\* ------------------------------------------------------------ room for three characters

\* The lines of the loop so far: those pushed and the one in progress.
LinesSoFar ==
  IF sState.currentLine # <<>> THEN Append(sState.allLines, sState.currentLine)
  ELSE sState.allLines

Overflows(line) == LineWidth2(line, sFontSize) > 2 * sMaxWidth

\* C27: when the maximum width is at least 3 x fontSize, every line of wrapText
\* has estimated pixel width at most the maximum width, for every text and
\* prohibition set; a line exceeds the width only as the up-to-two carried
\* characters plus the incoming character, at the moment a break (or the first
\* character of the paragraph) starts it.
C27_FitsWithRoomForThree ==
  /\ sMaxWidth >= 3 * sFontSize =>
       /\ \A i \in DOMAIN LinesSoFar : ~Overflows(LinesSoFar[i])
       /\ sState.currentWidth <= 2 * sMaxWidth
  /\ \A i \in DOMAIN LinesSoFar : Overflows(LinesSoFar[i]) => Len(LinesSoFar[i]) <= 3
  /\ (sState.currentLine # <<>> /\ Overflows(sState.currentLine)) =>
       \/ Len(sState.currentLine) = 1
       \/ /\ sLast.broke
          /\ LET line == sLast.before.currentLine
                 carried == CarriedCount(line, sLast.char, sConfig)
             IN sState.currentLine
                  = SubSeq(line, Len(line) - carried + 1, Len(line)) \o <<sLast.char>>

\* At a width of three full-width characters a break carried two characters:
\* the line it started holds three characters and is exactly full.
C27_Witness ==
  /\ sMaxWidth >= 3 * sFontSize
  /\ sLast.broke
  /\ CarriedCount(sLast.before.currentLine, sLast.char, sConfig) = 2
  /\ Len(sState.currentLine) = 3
  /\ LineWidth2(sState.currentLine, sFontSize) = 2 * sMaxWidth

\* ------------------------------------------------------------ the height under the default configuration

\* C28: under DEFAULT_CONFIG, for every quote, title and author,
\* calculateRequiredHeight with the sizes calculateOptimalFontSizes chose never
\* exceeds canvas.maxHeight, so the upper clamp never makes the canvas shorter
\* than the laid-out content.
C28_DefaultHeightWithinMax ==
  (HeightDerived /\ config = DEFAULT_CONFIG) =>
    /\ fontSizes = calculateOptimalFontSizes(quoteData, config)
    /\ requiredHeight <= config.canvas.maxHeight
    /\ canvasHeight >= requiredHeight

\* All three sections exactly at their caps, at the base sizes: the tallest
\* content the default configuration lays out, taller than minHeight.
C28_Witness ==
  /\ HeightDerived
  /\ config = DEFAULT_CONFIG
  /\ fontSizes = BaseSizes(config)
  /\ LineCount(quoteData.quote, fontSizes.quoteFontSize, config.text.maxLines.quote)
       = config.text.maxLines.quote
  /\ LineCount(quoteData.title, fontSizes.titleFontSize, config.text.maxLines.title)
       = config.text.maxLines.title
  /\ LineCount(quoteData.author, fontSizes.authorFontSize, config.text.maxLines.author)
       = config.text.maxLines.author
  /\ requiredHeight > config.canvas.minHeight
  /\ canvasHeight = requiredHeight

\* ------------------------------------------------------------ the height and the renderer

MaxLinesAtLeastOne ==
  /\ config.text.maxLines.quote >= 1
  /\ config.text.maxLines.title >= 1
  /\ config.text.maxLines.author >= 1

\* C29: the height computation and the renderer agree: for every input and
\* every configuration whose maxLines are at least 1, the Y position at which
\* generateQuoteImage finishes placing the quote, title and author lines, plus
\* canvas.footerHeight, equals calculateRequiredHeight for the same font sizes.
C29_RendererAgreesWithHeight ==
  (layout # NoLayout /\ MaxLinesAtLeastOne) =>
    /\ layout.endY + config.canvas.footerHeight = requiredHeight
    /\ Returned(requiredHeight) = calculateRequiredHeight(quoteData, fontSizes, config)

\* Quote, title and author all placed, the quote cut to its cap.
C29_Witness ==
  /\ layout # NoLayout
  /\ MaxLinesAtLeastOne
  /\ layout.titleLines # <<>>
  /\ layout.authorLines # <<>>
  /\ Len(wrapText(quoteData.quote, getMaxTextWidth(config), fontSizes.quoteFontSize,
                  config)) > config.text.maxLines.quote
  /\ layout.endY + config.canvas.footerHeight = requiredHeight

\* ------------------------------------------------------------ lines at a smaller font size

\* The font sizes of WrapFontSizes below the one of the call.
SmallerFontSizes == {size \in WrapFontSizes : size < wFontSize}

\* C30: for every text, maximum width and prohibition set, wrapText at a
\* smaller font size returns no more lines than wrapText of the same text at a
\* larger font size.
C30_SmallerFontNoMoreLines ==
  wpc = "done" =>
    \A size \in SmallerFontSizes :
      Len(wrapText(wText, wMaxWidth, size, wConfig)) <= Len(wLines)

====
